---- MODULE Spec2Model ----
(***************************************************************************)
(* A model of the content ingestion and digest assembly core of the        *)
(* security-news aggregator: the fetch manager and its worker loop, the    *)
(* digest generator, the digest scheduler and the job-run ledger, over a   *)
(* PostgreSQL database at READ COMMITTED.                                  *)
(*                                                                         *)
(* Three specifications share the state:                                   *)
(*   SpecFetch   fetch workers running fetch cycles over the sources;      *)
(*   SpecDigest  digest-scheduler runs and manual generate() calls;        *)
(*   SpecSave    _save_articles applied to drawn inputs.                   *)
(***************************************************************************)
EXTENDS Integers, Sequences, FiniteSets, TLC

VARIABLES
    now,        \* the wall clock, in ticks
    tz,         \* the process's local time zone, in ticks east of UTC
    lfa,        \* sources.last_fetched_at, committed: <<>> (NULL) or <<t>>
    articles,   \* the articles table, committed: url -> row
    wk,         \* per fetch worker: its position in run_worker / fetch_due_sources
    digests,    \* the digests table, committed: a set of rows
    files,      \* data/digests: date -> the file written for it
    jobRuns,    \* the job_runs table: a sequence of rows, run_id = index
    pr,         \* per digest process: its position in run_once / generate
    sv,         \* one application of a function: its inputs and result
    settings    \* the settings table, as SettingsService.get reads it

vars == <<now, tz, lfa, articles, wk, digests, files, jobRuns, pr, sv, settings>>

(***************************************************************************)
(* Bounds of the model.                                                    *)
(***************************************************************************)
MaxTime == 2        \* the clock runs 0..MaxTime
TicksPerDay == 2    \* ticks in a calendar day (and in the 24h first-fetch window)
MaxCands == 2       \* candidates drawn for one _save_articles application

None == <<>>
Some(t) == <<t>>
NONE == "none"

(***************************************************************************)
(* Text: a string is a sequence of characters, so that lower-casing and    *)
(* substring search are computed.                                          *)
(***************************************************************************)
UpperToLower == [c \in {"C", "V", "E", "S", "U", "N"} |->
                    CASE c = "C" -> "c" [] c = "V" -> "v" [] c = "E" -> "e"
                      [] c = "S" -> "s" [] c = "U" -> "u" [] c = "N" -> "n"]

\* str.lower()
Lower(str) == [i \in 1..Len(str) |->
                 IF str[i] \in DOMAIN UpperToLower THEN UpperToLower[str[i]] ELSE str[i]]

\* kw in text
Contains(text, kw) ==
    \E i \in 1..(Len(text) + 1) :
        /\ i + Len(kw) - 1 <= Len(text)
        /\ SubSeq(text, i, i + Len(kw) - 1) = kw

(***************************************************************************)
(* The sources and categories.                                             *)
(***************************************************************************)
Sources == {"A", "B", "C", "D"}

SecurityCategory == [digest_section |-> "security_news", keywords |-> {<<"c", "v", "e">>}]
MarketCategory   == [digest_section |-> "market", keywords |-> {}]

SourceRow == [s \in Sources |->
    CASE s = "A" -> [name |-> "A", source_type |-> "website", enabled |-> TRUE,
                     fetch_interval_minutes |-> 1, keywords |-> {},
                     category |-> SecurityCategory]
      [] s = "B" -> [name |-> "B", source_type |-> "twitter", enabled |-> TRUE,
                     fetch_interval_minutes |-> 1, keywords |-> {},
                     category |-> SecurityCategory]
      [] s = "C" -> [name |-> "C", source_type |-> "website", enabled |-> TRUE,
                     fetch_interval_minutes |-> 3, keywords |-> {},
                     category |-> MarketCategory]
      [] s = "D" -> [name |-> "D", source_type |-> "website", enabled |-> FALSE,
                     fetch_interval_minutes |-> 1, keywords |-> {},
                     category |-> MarketCategory]]

\* SettingsService.DEFAULTS, the keys the digest path reads
DefaultSettings == [digest_time |-> "08:00", telegram_notifications |-> TRUE,
                    digest_sections |-> <<"security_news", "product_news", "market">>]

\* A and B were never fetched; C was last fetched one tick before the clock starts
InitialLfa == [s \in Sources |->
    CASE s \in {"A", "B"} -> None
      [] s = "C" -> Some(-1)
      [] s = "D" -> Some(0)]

(***************************************************************************)
(* FetcherManager._save_articles and its three gates.                      *)
(***************************************************************************)
\* _get_date_cutoff: the source's last_fetched_at, or now - 24h on a first fetch
GetDateCutoff(last, t) == IF last # None THEN last[1] ELSE t - TicksPerDay

\* a gate that also turns away an article published at the cutoff itself
IsRecentEnoughStrict(article, cutoff) ==
    IF article.published_at = None THEN TRUE ELSE article.published_at[1] > cutoff

\* _is_recent_enough: an undated article is admitted
IsRecentEnough(article, cutoff) ==
    IF article.published_at = None THEN TRUE ELSE article.published_at[1] >= cutoff

\* _matches_keywords: source and category keywords, case-insensitive substring
MatchesKeywords(article, source) ==
    LET keywords == source.keywords \cup source.category.keywords
        text == Lower(article.title \o <<" ">> \o article.content)
    IN  IF keywords = {} THEN TRUE
        ELSE \E kw \in keywords : Contains(text, Lower(kw))

\* the order in which the loop body tests a candidate
GateOrderRecencyFirst == <<"recency", "dedup", "keyword">>
GateOrder == <<"dedup", "recency", "keyword">>

Rejects(gate, article, seen, cutoff, source) ==
    CASE gate = "dedup"   -> article.url \in seen
      [] gate = "recency" -> ~IsRecentEnough(article, cutoff)
      [] gate = "keyword" -> ~MatchesKeywords(article, source)

\* the counter a rejecting gate increments
CounterOf(gate) ==
    CASE gate = "dedup" -> "duplicate" [] gate = "recency" -> "old"
      [] gate = "keyword" -> "filtered" [] OTHER -> "saved"

\* one pass of the loop body: the gates tested, in order, and the one that rejected
RECURSIVE RunGates(_, _, _, _, _)
RunGates(gates, article, seen, cutoff, source) ==
    IF gates = <<>> THEN [checked |-> <<>>, rejected |-> NONE]
    ELSE IF Rejects(Head(gates), article, seen, cutoff, source)
         THEN [checked |-> <<Head(gates)>>, rejected |-> Head(gates)]
         ELSE LET rest == RunGates(Tail(gates), article, seen, cutoff, source)
              IN  [checked |-> <<Head(gates)>> \o rest.checked, rejected |-> rest.rejected]

NewArticle(source, article, t) ==
    [source_id |-> source.name, url |-> article.url, title |-> article.title,
     raw_content |-> article.content, published_at |-> article.published_at,
     digest_section |-> source.category.digest_section, fetched_at |-> t,
     summary |-> None, digest_id |-> None]

EmptySave == [saved |-> 0, filtered |-> 0, old |-> 0, duplicate |-> 0,
              added |-> <<>>, checked |-> <<>>]

\* the for loop of _save_articles; `stored` are the urls the SELECT sees committed,
\* to which autoflush adds the rows this session has added so far
RECURSIVE SaveLoop(_, _, _, _, _, _)
SaveLoop(source, cutoff, stored, cands, t, acc) ==
    IF cands = <<>> THEN acc
    ELSE LET article == Head(cands)
             seen == stored \cup {acc.added[i].url : i \in 1..Len(acc.added)}
             g == RunGates(GateOrder, article, seen, cutoff, source)
             counter == CounterOf(g.rejected)
             bumped == [acc EXCEPT ![counter] = @ + 1,
                                   !.checked = Append(@, g.checked)]
         IN  SaveLoop(source, cutoff, stored, Tail(cands), t,
                      IF g.rejected = NONE
                      THEN [bumped EXCEPT !.added = Append(@, NewArticle(source, article, t))]
                      ELSE bumped)

SaveArticles(source, last, stored, cands, t) ==
    SaveLoop(source, GetDateCutoff(last, t), stored, cands, t, EmptySave)

(***************************************************************************)
(* The fetch workers: run_worker driving FetcherManager.fetch_due_sources. *)
(* A worker's transaction holds the row lock of the source it claimed and  *)
(* the rows it has added; both are released or published at commit, and    *)
(* dropped at rollback.                                                    *)
(***************************************************************************)
Workers == {"w1", "w2"}

\* what the website extractor may return for a listing page
CandCve == [url |-> "u1", title |-> <<"C", "V", "E">>, content |-> <<"x">>,
            published_at |-> None]
CandSun == [url |-> "u2", title |-> <<"S", "u", "n">>, content |-> <<>>,
            published_at |-> Some(0)]
Listings == {<<CandCve>>, <<CandCve, CandSun>>}

\* WORKER_MAX_SOURCES as configured for a cycle
MaxSourcesChoices == {1, Cardinality(Sources)}

EmptyStats == [sources_checked |-> 0, sources_fetched |-> 0, articles_found |-> 0,
               articles_new |-> 0, articles_filtered |-> 0, articles_old |-> 0,
               errors |-> <<>>]

IdleWorker == [pc |-> "idle", alone |-> FALSE, max_sources |-> 0, iter |-> 0,
               attempted |-> {}, held |-> NONE, txnow |-> 0, found |-> 0,
               cands |-> <<>>,
               save |-> EmptySave, exc |-> NONE, stats |-> EmptyStats,
               lfa0 |-> InitialLfa, listing_failed |-> FALSE]

\* a due condition that leaves out the boundary instant
DueStrict(s, last, t) ==
    \/ last = None
    \/ last[1] < t - SourceRow[s].fetch_interval_minutes

\* the due condition of the claim query, at the transaction's now()
Due(s, last, t) ==
    \/ last = None
    \/ last[1] <= t - SourceRow[s].fetch_interval_minutes

\* a row lock held by an open transaction; FOR UPDATE SKIP LOCKED passes over the row
RowUnlocked(s) == FALSE
RowLocked(s) == \E w \in Workers : wk[w].held = s

\* an ascending order that puts the never-fetched rows last
OrderedBeforeNullsLast(s1, s2) ==
    \/ lfa[s1] # None /\ lfa[s2] = None
    \/ lfa[s1] # None /\ lfa[s2] # None /\ lfa[s1][1] < lfa[s2][1]

\* ORDER BY last_fetched_at ASC NULLS FIRST
OrderedBefore(s1, s2) ==
    \/ lfa[s1] = None /\ lfa[s2] # None
    \/ lfa[s1] # None /\ lfa[s2] # None /\ lfa[s1][1] < lfa[s2][1]

\* a claim query without the `id NOT IN attempted` condition
ClaimableAgain(w) ==
    {s \in Sources : /\ SourceRow[s].enabled
                     /\ Due(s, lfa[s], now)
                     /\ ~RowLocked(s)}

\* the rows the claim query can return: enabled, due, not attempted, not locked
Claimable(w) ==
    {s \in Sources : /\ SourceRow[s].enabled
                     /\ Due(s, lfa[s], now)
                     /\ s \notin wk[w].attempted
                     /\ ~RowLocked(s)}

\* LIMIT 1 of the ordered rows
FirstClaimable(w) ==
    {s \in Claimable(w) : \A t \in Claimable(w) : ~OrderedBefore(t, s)}

\* INSERT of the session's added rows into the articles table, keyed by url
InsertRows(table, added) ==
    IF added = <<>> THEN table
    ELSE [u \in DOMAIN table \cup {added[i].url : i \in 1..Len(added)} |->
            IF u \in DOMAIN table THEN table[u]
            ELSE LET i == CHOOSE j \in 1..Len(added) : added[j].url = u
                 IN  added[i]]

\* the for loop goes round again, or range(max_sources) is exhausted
AfterIteration(w) == IF wk[w].iter = wk[w].max_sources THEN "return" ELSE "claim"

\* run_worker: the loop starts a fetch cycle and calls fetch_due_sources
CycleStart(w) ==
    /\ wk[w].pc = "idle"
    /\ \E m \in MaxSourcesChoices :
         wk' = [v \in DOMAIN wk |->
                  IF v = w
                  THEN [IdleWorker EXCEPT !.pc = "claim", !.max_sources = m,
                           !.alone = \A u \in Workers \ {w} : wk[u].pc = "idle",
                           !.lfa0 = lfa]
                  ELSE [wk[v] EXCEPT !.alone = FALSE]]
    /\ UNCHANGED <<now, tz, lfa, articles, digests, files, jobRuns, pr, sv, settings>>

\* one claim query: SELECT ... FOR UPDATE SKIP LOCKED LIMIT 1
Claim(w) ==
    /\ wk[w].pc = "claim"
    /\ IF FirstClaimable(w) = {}
       THEN wk' = [wk EXCEPT ![w].pc = "return", ![w].txnow = now]
       ELSE \E s \in FirstClaimable(w) :
              wk' = [wk EXCEPT ![w].pc = "fetch", ![w].txnow = now,
                               ![w].iter = @ + 1, ![w].held = s,
                               ![w].attempted = @ \cup {s},
                               ![w].stats.sources_checked = @ + 1]
    /\ UNCHANGED <<now, tz, lfa, articles, digests, files, jobRuns, pr, sv, settings>>

\* _fetch_source up to the end of _save_articles' loop: dispatch on the source type,
\* fetch the candidates, run the gates; the added rows stay in the session
FetchSource(w) ==
    /\ wk[w].pc = "fetch"
    /\ LET s == wk[w].held IN
       IF SourceRow[s].source_type \in {"twitter", "reddit"}
       THEN wk' = [wk EXCEPT ![w].pc = "except", ![w].exc = "NotImplementedError"]
       ELSE \E cands \in Listings :
              wk' = [wk EXCEPT ![w].pc = "commit", ![w].found = Len(cands),
                        ![w].cands = cands,
                        ![w].save = SaveArticles(SourceRow[s], lfa[s],
                                                 DOMAIN articles, cands, now)]
    /\ UNCHANGED <<now, tz, lfa, articles, digests, files, jobRuns, pr, sv, settings>>

\* _fetch_source when the request for the listing page fails: fetch_articles catches
\* the error, logs it and returns no candidates, and _save_articles runs on the empty
\* list
FetchListingFails(w) ==
    /\ wk[w].pc = "fetch"
    /\ LET s == wk[w].held IN
       /\ SourceRow[s].source_type = "website"
       /\ wk' = [wk EXCEPT ![w].pc = "commit", ![w].found = 0,
                    ![w].listing_failed = TRUE,
                    ![w].save = SaveArticles(SourceRow[s], lfa[s],
                                             DOMAIN articles, << >>, now)]
    /\ UNCHANGED <<now, tz, lfa, articles, digests, files, jobRuns, pr, sv, settings>>

\* the rest of _fetch_source: flush, set last_fetched_at, commit; then the caller adds
\* the source's stats. A url committed by another transaction since the gate ran
\* violates the unique constraint at the flush.
FlushAndCommit(w) ==
    /\ wk[w].pc = "commit"
    /\ LET s == wk[w].held
           added == wk[w].save.added
       IN  IF \E i \in 1..Len(added) : added[i].url \in DOMAIN articles
           THEN /\ wk' = [wk EXCEPT ![w].pc = "except", ![w].exc = "IntegrityError"]
                /\ UNCHANGED <<lfa, articles>>
           ELSE /\ articles' = InsertRows(articles, added)
                /\ lfa' = [lfa EXCEPT ![s] = Some(now)]
                /\ wk' = [wk EXCEPT ![w].pc = AfterIteration(w), ![w].held = NONE,
                              ![w].save = EmptySave, ![w].found = 0,
                              ![w].cands = <<>>,
                              ![w].listing_failed = FALSE,
                              ![w].stats.sources_fetched = @ + 1,
                              ![w].stats.articles_found = @ + wk[w].found,
                              ![w].stats.articles_new = @ + wk[w].save.saved,
                              ![w].stats.articles_filtered = @ + wk[w].save.filtered,
                              ![w].stats.articles_old = @ + wk[w].save.old]
    /\ UNCHANGED <<now, tz, digests, files, jobRuns, pr, sv, settings>>

\* a handler that rolls back and logs, and appends nothing to errors
HandleFetchErrorUnrecorded(w) ==
    /\ wk[w].pc = "except"
    /\ wk' = [wk EXCEPT ![w].pc = AfterIteration(w), ![w].held = NONE,
                 ![w].save = EmptySave, ![w].found = 0, ![w].exc = NONE,
                 ![w].cands = <<>>]
    /\ UNCHANGED <<now, tz, lfa, articles, digests, files, jobRuns, pr, sv, settings>>

\* a handler that records the error and leaves the transaction to the session's exit
HandleFetchErrorNoRollback(w) ==
    /\ wk[w].pc = "except"
    /\ LET s == wk[w].held
           added == wk[w].save.added
       IN  /\ articles' = InsertRows(articles, added)
           /\ wk' = [wk EXCEPT ![w].pc = AfterIteration(w), ![w].held = NONE,
                         ![w].save = EmptySave, ![w].found = 0, ![w].exc = NONE,
                 ![w].cands = <<>>,
                         ![w].stats.errors =
                             Append(@, <<SourceRow[s].name, wk[w].exc>>)]
    /\ UNCHANGED <<now, tz, lfa, digests, files, jobRuns, pr, sv, settings>>

\* a handler that records the error and never ends the transaction: the row stays
\* locked while the loop goes on
HandleFetchErrorKeepsLock(w) ==
    /\ wk[w].pc = "except"
    /\ LET s == wk[w].held IN
       wk' = [wk EXCEPT ![w].pc = AfterIteration(w),
                 ![w].save = EmptySave, ![w].found = 0, ![w].exc = NONE,
                 ![w].cands = <<>>,
                 ![w].stats.errors = Append(@, <<SourceRow[s].name, wk[w].exc>>)]
    /\ UNCHANGED <<now, tz, lfa, articles, digests, files, jobRuns, pr, sv, settings>>

\* the except clauses of fetch_due_sources: append "{name}: {error}", roll back
HandleFetchError(w) ==
    /\ wk[w].pc = "except"
    /\ LET s == wk[w].held IN
       wk' = [wk EXCEPT ![w].pc = AfterIteration(w), ![w].held = NONE,
                 ![w].save = EmptySave, ![w].found = 0, ![w].exc = NONE,
                 ![w].cands = <<>>,
                 ![w].stats.errors = Append(@, <<SourceRow[s].name, wk[w].exc>>)]
    /\ UNCHANGED <<now, tz, lfa, articles, digests, files, jobRuns, pr, sv, settings>>

\* run_worker: fetch_due_sources has returned; log the stats and sleep
CycleEnd(w) ==
    /\ wk[w].pc = "return"
    /\ wk' = [wk EXCEPT ![w] = IdleWorker]
    /\ UNCHANGED <<now, tz, lfa, articles, digests, files, jobRuns, pr, sv, settings>>

\* time passes
Tick ==
    /\ now < MaxTime
    /\ now' = now + 1
    /\ UNCHANGED <<tz, lfa, articles, wk, digests, files, jobRuns, pr, sv, settings>>

InitFetch ==
    /\ now = 0
    /\ tz = 0
    /\ lfa = InitialLfa
    /\ articles = << >>
    /\ wk = [w \in Workers |-> IdleWorker]
    /\ digests = {}
    /\ files = << >>
    /\ jobRuns = << >>
    /\ pr = << >>
    /\ sv = << >>
    /\ settings = DefaultSettings

NextFetch ==
    \/ Tick
    \/ \E w \in Workers :
         \/ CycleStart(w)
         \/ Claim(w)
         \/ FetchSource(w)
         \/ FlushAndCommit(w)
         \/ HandleFetchError(w)
         \/ CycleEnd(w)

SpecFetch == InitFetch /\ [][NextFetch]_vars

(***************************************************************************)
(* FetcherManager.fetch_source: the force-fetch of one source by id, run   *)
(* beside a worker's fetch cycles.                                         *)
(***************************************************************************)
Forcers == {"f1", "f2"}
CycleWorkers == {"w1"}
\* the source ids the force-fetch is asked for
ForceIds == {"A", "B"}

\* fetch_source selects the source by id, with no FOR UPDATE
ForceStart(f) ==
    /\ wk[f].pc = "idle"
    /\ \E s \in ForceIds :
         wk' = [wk EXCEPT ![f] = [IdleWorker EXCEPT !.pc = "ffetch", !.held = s]]
    /\ UNCHANGED <<now, tz, lfa, articles, digests, files, jobRuns, pr, sv, settings>>

\* fetch_source: fetch the candidates and run the gates; an exception leaves the
\* session block, which rolls back. With no row to insert the flush has nothing to wait
\* for, and `source.last_fetched_at = utcnow_naive()` is evaluated at once.
ForceFetch(f) ==
    /\ wk[f].pc = "ffetch"
    /\ LET s == wk[f].held IN
       IF SourceRow[s].source_type \in {"twitter", "reddit"}
       THEN wk' = [wk EXCEPT ![f] = IdleWorker]
       ELSE \E cands \in Listings :
              wk' = [wk EXCEPT ![f].pc = "fcommit", ![f].found = Len(cands),
                        ![f].txnow = now,
                        ![f].save = SaveArticles(SourceRow[s], lfa[s],
                                                 DOMAIN articles, cands, now)]
    /\ UNCHANGED <<now, tz, lfa, articles, digests, files, jobRuns, pr, sv, settings>>

\* fetch_source: flush the articles, set last_fetched_at, commit. The UPDATE of the
\* source row waits for a row lock a worker holds on it, and so does the INSERT of an
\* article of that source; the UPDATE stores the time the assignment was evaluated.
ForceCommit(f) ==
    /\ wk[f].pc = "fcommit"
    /\ ~RowLocked(wk[f].held)
    /\ LET s == wk[f].held
           added == wk[f].save.added
       IN  IF \E i \in 1..Len(added) : added[i].url \in DOMAIN articles
           THEN UNCHANGED <<lfa, articles>>
           ELSE /\ articles' = InsertRows(articles, added)
                /\ lfa' = [lfa EXCEPT ![s] = IF added = <<>> THEN Some(wk[f].txnow)
                                              ELSE Some(now)]
    /\ wk' = [wk EXCEPT ![f] = IdleWorker]
    /\ UNCHANGED <<now, tz, digests, files, jobRuns, pr, sv, settings>>

InitForce ==
    /\ now = 0
    /\ tz = 0
    /\ lfa = InitialLfa
    /\ articles = << >>
    /\ wk = [x \in Workers \cup Forcers |-> IdleWorker]
    /\ digests = {}
    /\ files = << >>
    /\ jobRuns = << >>
    /\ pr = << >>
    /\ sv = << >>
    /\ settings = DefaultSettings

NextForce ==
    \/ Tick
    \/ \E w \in CycleWorkers :
         \/ CycleStart(w)
         \/ Claim(w)
         \/ FetchSource(w)
         \/ FlushAndCommit(w)
         \/ HandleFetchError(w)
         \/ CycleEnd(w)
    \/ \E f \in Forcers :
         \/ ForceStart(f)
         \/ ForceFetch(f)
         \/ ForceCommit(f)

SpecForce == InitForce /\ [][NextForce]_vars

(***************************************************************************)
(* One worker on its own: the cycles of a single run_worker process, with  *)
(* listing pages that may fail to load.                                    *)
(***************************************************************************)
NextSolo ==
    \/ Tick
    \/ \E w \in CycleWorkers :
         \/ CycleStart(w)
         \/ Claim(w)
         \/ FetchSource(w)
         \/ FetchListingFails(w)
         \/ FlushAndCommit(w)
         \/ HandleFetchError(w)
         \/ CycleEnd(w)

SpecSolo == InitFetch /\ [][NextSolo]_vars

\* the steps of worker w's process
WorkerStep(w) ==
    \/ CycleStart(w)
    \/ Claim(w)
    \/ FetchSource(w)
    \/ FetchListingFails(w)
    \/ FlushAndCommit(w)
    \/ HandleFetchError(w)
    \/ CycleEnd(w)

\* the worker's process keeps running, cycle after cycle, and the clock advances
SpecSoloFair ==
    SpecSolo /\ WF_vars(Tick) /\ \A w \in CycleWorkers : WF_vars(WorkerStep(w))

(***************************************************************************)
(* _save_articles on its own: the inputs are drawn, the function applied.  *)
(***************************************************************************)
Urls == {"u1", "u2"}
Titles == {<<"C", "V", "E">>, <<"S", "u", "n">>}
PublishedAts == {None, Some(0 - 1), Some(1)}
Candidates == [url : Urls, title : Titles, content : {<<>>}, published_at : PublishedAts]

\* the candidate lists of at most MaxCands articles
CandidateLists == UNION {[1..n -> Candidates] : n \in 0..MaxCands}

InitSave ==
    /\ now = MaxTime
    /\ tz = 0
    /\ lfa = InitialLfa
    /\ articles = << >>
    /\ wk = << >>
    /\ digests = {}
    /\ files = << >>
    /\ jobRuns = << >>
    /\ pr = << >>
    /\ settings = DefaultSettings
    /\ sv \in [source : {SourceRow["A"], SourceRow["C"]},
                last : {None, Some(1), Some(2)},
                stored : SUBSET Urls,
                cands : CandidateLists,
                done : {FALSE},
                result : {EmptySave}]

\* one call of _save_articles(session, source, articles)
ApplySave ==
    /\ ~sv.done
    /\ sv' = [sv EXCEPT !.done = TRUE,
                        !.result = SaveArticles(sv.source, sv.last, sv.stored, sv.cands, now)]
    /\ UNCHANGED <<now, tz, lfa, articles, wk, digests, files, jobRuns, pr, settings>>

NextSave == ApplySave

SpecSave == InitSave /\ [][NextSave]_vars

(***************************************************************************)
(* The digest path: the scheduler's run_once, the admin route's manual     *)
(* generation, DigestService.generate and the job-run ledger.              *)
(***************************************************************************)
MaxRuns == 2        \* digest runs made in all, by the scheduler and the admin route
MaxFaults == 1      \* database failures injected into the digest path

Procs == {"sched", "admin"}
Schedulers == {"sched"}

\* now_utc.date(): the UTC calendar date of an instant
UtcDate(t) == t \div TicksPerDay

\* date.today(): the calendar date of an instant in the process's local time zone
LocalDate(t) == (t + tz) \div TicksPerDay

\* the articles in the table when the digest processes start, and one a fetch worker
\* commits later
CandNew == [url |-> "u3", title |-> <<"N", "e", "w">>, content |-> <<"x">>,
            published_at |-> None]
StoredArticles ==
    InsertRows(<< >>, <<NewArticle(SourceRow["A"], CandCve, 0),
                       NewArticle(SourceRow["C"], CandSun, 0)>>)

\* the calendar dates the clock can show, and data/digests before any file is written
Dates == 0..((MaxTime + TicksPerDay - 1) \div TicksPerDay)
NoFile == [articles |-> {}, writes |-> 0]

IdleProc == [pc |-> "idle", runs |-> 0, digest_date |-> 0, run_id |-> 0,
             snapshot |-> << >>, today |-> None, digest |-> None, exc |-> NONE,
             generated |-> FALSE, faults |-> 0, sent |-> None]

\* the database failures injected so far
Faults == Cardinality({x \in Procs \X (1..MaxFaults) : x[2] <= pr[x[1]].faults})

\* a database call may fail while the budget of injected failures lasts
CanFault == Faults < MaxFaults

Bump(fault) == IF fault THEN 1 ELSE 0

\* another digest run may start while the bound on runs lasts
CanRun ==
    Cardinality({x \in Procs \X (1..MaxRuns) : x[2] <= pr[x[1]].runs}) < MaxRuns

\* a function restricted to the keys in S
Restrict(f, S) == IF S = {} THEN << >> ELSE [x \in S |-> f[x]]

\* JobRunService.start: a row with status "running"; the run id is its index
JobRunStart(rows, job_name, details, t) ==
    Append(rows, [job_name |-> job_name, status |-> "running", started_at |-> t,
                  finished_at |-> None, details |-> details, error_message |-> None])

\* JobRunService.finish: set status, finished_at, and details and error_message when given
JobRunFinish(rows, run_id, status, details, error_message, t) ==
    IF run_id \notin DOMAIN rows THEN rows
    ELSE [rows EXCEPT ![run_id] =
            [@ EXCEPT !.status = status,
                      !.finished_at = Some(t),
                      !.details = IF details # None THEN details[1] ELSE @,
                      !.error_message = IF error_message # None THEN error_message ELSE @]]

\* the details dicts run_once passes
Details(date, reason, digest_id, notified) ==
    [digest_date |-> date, reason |-> reason, digest_id |-> digest_id,
     notified |-> notified]

\* the longest error_message run_once records
MsgLimit == 500

\* str(e): the exception's text, held as the text's name and its length
Str(e) ==
    CASE e = "ValueError" -> <<e, 55>>
      [] e = "IntegrityError" -> <<e, 300>>
      [] OTHER -> <<e, 620>>

\* text[:n]: the prefix of at most n characters
Prefix(text, n) == <<text[1], IF text[2] <= n THEN text[2] ELSE n>>

\* SELECT ... WHERE digest_id IS NULL
Unprocessed == {u \in DOMAIN articles : articles[u].digest_id = None}

\* the unique constraint on digests.date that never finds the date taken
DateFree(d) == FALSE
\* the unique constraint on digests.date, against the committed rows
DateTaken(d) == \E row \in digests : row.date = d

\* SELECT count(*) FROM digests WHERE date = target_date.date()
DigestExistsForDate(d) == \E row \in digests : row.date = d

\* an INSERT that does not wait for a pending insert of the same date
InsertGoesAhead(p) == FALSE
\* an INSERT of a date waits for an uncommitted insert of the same date to end
InsertWaits(p) ==
    \E q \in Procs \ {p} : pr[q].pc = "g_commit" /\ pr[q].today = pr[p].today

\* step 4 of generate: an article without a summary and with content gets one
Summarized(row) ==
    IF row.summary = None /\ row.raw_content # <<>>
    THEN [row EXCEPT !.summary = Some("summary")]
    ELSE row

\* run_once or the route is left: the call's locals are gone
Leave(p, fault) ==
    [IdleProc EXCEPT !.runs = pr[p].runs, !.generated = pr[p].generated,
                     !.faults = pr[p].faults + Bump(fault)]

\* generate() raises exception e
Raise(p, e, fault) ==
    [pr[p] EXCEPT !.pc = "g_raised", !.exc = e, !.faults = @ + Bump(fault)]

\* a fetch worker commits a new article (the commit of _fetch_source)
ArticleArrives ==
    /\ CandNew.url \notin DOMAIN articles
    /\ articles' = InsertRows(articles, <<NewArticle(SourceRow["A"], CandNew, now)>>)
    /\ UNCHANGED <<now, tz, lfa, wk, digests, files, jobRuns, pr, sv, settings>>

\* scheduler_loop calls run_once(now_utc = utcnow_naive()): read digest_time, start
\* the job run. Either read failing raises out of run_once before a row is written.
RunOnceStart(p) ==
    /\ p \in Schedulers
    /\ pr[p].pc = "idle"
    /\ CanRun
    /\ LET fresh == [IdleProc EXCEPT !.runs = pr[p].runs + 1,
                                     !.faults = pr[p].faults,
                                     !.digest_date = UtcDate(now)]
       IN  \/ /\ jobRuns' = JobRunStart(jobRuns, "digest_scheduler",
                                        Details(UtcDate(now), NONE, None, None), now)
              /\ pr' = [pr EXCEPT ![p] = [fresh EXCEPT !.pc = "exists",
                                                       !.run_id = Len(jobRuns) + 1]]
           \/ /\ CanFault
              /\ pr' = [pr EXCEPT ![p] = [fresh EXCEPT !.faults = @ + 1,
                                                       !.digest_date = 0]]
              /\ UNCHANGED jobRuns
    /\ UNCHANGED <<now, tz, lfa, articles, wk, digests, files, sv, settings>>

\* _digest_exists_for_date, and the skipped/already_exists finish when it finds a row;
\* the check and the finish are outside run_once's try block
ExistsCheck(p) ==
    /\ pr[p].pc = "exists"
    /\ \/ /\ DigestExistsForDate(pr[p].digest_date)
          /\ jobRuns' = JobRunFinish(jobRuns, pr[p].run_id, "skipped",
                                     Some(Details(pr[p].digest_date, "already_exists", None, None)),
                                     None, now)
          /\ pr' = [pr EXCEPT ![p] = Leave(p, FALSE)]
       \/ /\ ~DigestExistsForDate(pr[p].digest_date)
          /\ pr' = [pr EXCEPT ![p].pc = "g_read", ![p].generated = TRUE]
          /\ UNCHANGED jobRuns
       \/ /\ CanFault
          /\ pr' = [pr EXCEPT ![p] = Leave(p, TRUE)]
          /\ UNCHANGED jobRuns
    /\ UNCHANGED <<now, tz, lfa, articles, wk, digests, files, sv, settings>>

\* the admin route POST /digests/generate calls generate()
ManualStart(p) ==
    /\ p \notin Schedulers
    /\ pr[p].pc = "idle"
    /\ CanRun
    /\ pr' = [pr EXCEPT ![p] = [IdleProc EXCEPT !.pc = "g_read", !.generated = TRUE,
                                                !.runs = pr[p].runs + 1,
                                                !.faults = pr[p].faults]]
    /\ UNCHANGED <<now, tz, lfa, articles, wk, digests, files, jobRuns, sv, settings>>

\* generate step 1: the snapshot of unprocessed articles, held as objects in memory
ReadSnapshot(p) ==
    /\ pr[p].pc = "g_read"
    /\ \/ /\ Unprocessed # {}
          /\ pr' = [pr EXCEPT ![p].pc = "g_render",
                              ![p].snapshot = Restrict(articles, Unprocessed)]
       \/ /\ Unprocessed = {}
          /\ pr' = [pr EXCEPT ![p] = Raise(p, "ValueError", FALSE)]
       \/ /\ CanFault
          /\ pr' = [pr EXCEPT ![p] = Raise(p, "OperationalError", TRUE)]
    /\ UNCHANGED <<now, tz, lfa, articles, wk, digests, files, jobRuns, sv, settings>>

\* a generate that writes the file of the day before it looks at what it kept
RenderWritesFirst(p) ==
    /\ pr[p].pc = "g_render"
    /\ LET enabled == {settings.digest_sections[i] : i \in DOMAIN settings.digest_sections}
           kept == {u \in DOMAIN pr[p].snapshot :
                       pr[p].snapshot[u].digest_section \in enabled}
           today == LocalDate(now)
       IN  \/ /\ kept # {}
              /\ pr' = [pr EXCEPT ![p].pc = "g_insert",
                                  ![p].today = Some(today),
                                  ![p].snapshot = [u \in kept |-> Summarized(pr[p].snapshot[u])]]
              /\ files' = [files EXCEPT ![today] = [articles |-> kept,
                                                     writes |-> @.writes + 1]]
           \/ /\ kept = {}
              /\ pr' = [pr EXCEPT ![p] = Raise(p, "ValueError", FALSE)]
              /\ files' = [files EXCEPT ![today] = [articles |-> kept,
                                                     writes |-> @.writes + 1]]
           \/ /\ CanFault
              /\ pr' = [pr EXCEPT ![p] = Raise(p, "OperationalError", TRUE)]
              /\ UNCHANGED files
    /\ UNCHANGED <<now, tz, lfa, articles, wk, digests, jobRuns, sv, settings>>

\* a generate without step 3, the filter on the enabled sections
RenderAllSections(p) ==
    /\ pr[p].pc = "g_render"
    /\ LET kept == DOMAIN pr[p].snapshot
           today == LocalDate(now)
       IN  \/ /\ kept # {}
              /\ pr' = [pr EXCEPT ![p].pc = "g_insert",
                                  ![p].today = Some(today),
                                  ![p].snapshot = [u \in kept |-> Summarized(pr[p].snapshot[u])]]
              /\ files' = [files EXCEPT ![today] = [articles |-> kept,
                                                     writes |-> @.writes + 1]]
           \/ /\ kept = {}
              /\ pr' = [pr EXCEPT ![p] = Raise(p, "ValueError", FALSE)]
              /\ UNCHANGED files
           \/ /\ CanFault
              /\ pr' = [pr EXCEPT ![p] = Raise(p, "OperationalError", TRUE)]
              /\ UNCHANGED files
    /\ UNCHANGED <<now, tz, lfa, articles, wk, digests, jobRuns, sv, settings>>

\* generate steps 2-7: read digest_sections, keep the enabled sections, summarize,
\* take today = date.today(), render and write data/digests/digest-{today}.html
Render(p) ==
    /\ pr[p].pc = "g_render"
    /\ LET enabled == {settings.digest_sections[i] : i \in DOMAIN settings.digest_sections}
           kept == {u \in DOMAIN pr[p].snapshot :
                       pr[p].snapshot[u].digest_section \in enabled}
           today == LocalDate(now)
       IN  \/ /\ kept # {}
              /\ pr' = [pr EXCEPT ![p].pc = "g_insert",
                                  ![p].today = Some(today),
                                  ![p].snapshot = [u \in kept |-> Summarized(pr[p].snapshot[u])]]
              /\ files' = [files EXCEPT ![today] = [articles |-> kept,
                                                     writes |-> @.writes + 1]]
           \/ /\ kept = {}
              /\ pr' = [pr EXCEPT ![p] = Raise(p, "ValueError", FALSE)]
              /\ UNCHANGED files
           \/ /\ CanFault
              /\ pr' = [pr EXCEPT ![p] = Raise(p, "OperationalError", TRUE)]
              /\ UNCHANGED files
    /\ UNCHANGED <<now, tz, lfa, articles, wk, digests, jobRuns, sv, settings>>

\* generate step 8, first half: session.add(digest) is flushed by the first UPDATE
InsertDigest(p) ==
    /\ pr[p].pc = "g_insert"
    /\ \/ /\ ~InsertWaits(p)
          /\ DateTaken(pr[p].today[1])
          /\ pr' = [pr EXCEPT ![p] = Raise(p, "IntegrityError", FALSE)]
       \/ /\ ~InsertWaits(p)
          /\ ~DateTaken(pr[p].today[1])
          /\ pr' = [pr EXCEPT ![p].pc = "g_commit",
                              ![p].digest = Some([id |-> <<p, pr[p].runs>>,
                                                  date |-> pr[p].today[1],
                                                  notified_at |-> None])]
       \/ /\ CanFault
          /\ pr' = [pr EXCEPT ![p] = Raise(p, "OperationalError", TRUE)]
    /\ UNCHANGED <<now, tz, lfa, articles, wk, digests, files, jobRuns, sv, settings>>

\* a commit whose UPDATE takes every article that is unprocessed at that moment
UpdateAndCommitAllUnprocessed(p) ==
    /\ pr[p].pc = "g_commit"
    /\ \/ /\ digests' = digests \cup {pr[p].digest[1]}
          /\ articles' = [u \in DOMAIN articles |->
                            IF u \in DOMAIN pr[p].snapshot \/ u \in Unprocessed
                            THEN [articles[u] EXCEPT
                                     !.digest_id = Some(pr[p].digest[1].id)]
                            ELSE articles[u]]
          /\ pr' = [pr EXCEPT ![p].pc = "g_notify"]
       \/ /\ CanFault
          /\ pr' = [pr EXCEPT ![p] = [Raise(p, "OperationalError", TRUE)
                                        EXCEPT !.digest = None]]
          /\ UNCHANGED <<digests, articles>>
    /\ UNCHANGED <<now, tz, lfa, wk, files, jobRuns, sv, settings>>

\* generate step 8, second half: UPDATE articles SET digest_id, summary WHERE id = ...
\* for each article of the snapshot, then commit; a failure rolls the insert back
UpdateAndCommit(p) ==
    /\ pr[p].pc = "g_commit"
    /\ \/ /\ digests' = digests \cup {pr[p].digest[1]}
          /\ articles' = [u \in DOMAIN articles |->
                            IF u \in DOMAIN pr[p].snapshot
                            THEN [articles[u] EXCEPT
                                     !.digest_id = Some(pr[p].digest[1].id),
                                     !.summary = pr[p].snapshot[u].summary]
                            ELSE articles[u]]
          /\ pr' = [pr EXCEPT ![p].pc = "g_notify"]
       \/ /\ CanFault
          /\ pr' = [pr EXCEPT ![p] = [Raise(p, "OperationalError", TRUE)
                                        EXCEPT !.digest = None]]
          /\ UNCHANGED <<digests, articles>>
    /\ UNCHANGED <<now, tz, lfa, wk, files, jobRuns, sv, settings>>

\* a step 9 that records notified_at whatever the notifier returned
NotifyStampsAlways(p) ==
    /\ pr[p].pc = "g_notify"
    /\ \/ /\ ~settings.telegram_notifications
          /\ pr' = [pr EXCEPT ![p].pc = "g_returned"]
          /\ UNCHANGED digests
       \/ /\ settings.telegram_notifications
          /\ \E sent \in BOOLEAN :
               LET old == pr[p].digest[1]
                   new == [old EXCEPT !.notified_at = Some(now)]
               IN  /\ digests' = (digests \ {old}) \cup {new}
                   /\ pr' = [pr EXCEPT ![p].pc = "g_returned", ![p].digest = Some(new),
                                       ![p].sent = Some(sent)]
       \/ /\ CanFault
          /\ pr' = [pr EXCEPT ![p] = Raise(p, "OperationalError", TRUE)]
          /\ UNCHANGED digests
    /\ UNCHANGED <<now, tz, lfa, articles, wk, files, jobRuns, sv, settings>>

\* generate step 9: read telegram_notifications; when it is true call the notifier,
\* which returns whether the message was sent, and on true record notified_at
Notify(p) ==
    /\ pr[p].pc = "g_notify"
    /\ \/ /\ ~settings.telegram_notifications
          /\ pr' = [pr EXCEPT ![p].pc = "g_returned"]
          /\ UNCHANGED digests
       \/ /\ settings.telegram_notifications
          /\ \E sent \in BOOLEAN :
               LET old == pr[p].digest[1]
                   new == IF sent THEN [old EXCEPT !.notified_at = Some(now)] ELSE old
               IN  /\ digests' = (digests \ {old}) \cup {new}
                   /\ pr' = [pr EXCEPT ![p].pc = "g_returned", ![p].digest = Some(new),
                                       ![p].sent = Some(sent)]
       \/ /\ CanFault
          /\ pr' = [pr EXCEPT ![p] = Raise(p, "OperationalError", TRUE)]
          /\ UNCHANGED digests
    /\ UNCHANGED <<now, tz, lfa, articles, wk, files, jobRuns, sv, settings>>

\* run_once after generate(): finish success, or the except clauses; a finish that
\* raises inside the try block is caught by `except Exception`, one that raises inside
\* an except clause leaves run_once
RecordResult(p) ==
    /\ p \in Schedulers
    /\ pr[p].pc \in {"g_returned", "g_raised"}
    /\ LET date == pr[p].digest_date IN
       \/ /\ jobRuns' =
                IF pr[p].pc = "g_returned"
                THEN JobRunFinish(jobRuns, pr[p].run_id, "success",
                                  Some(Details(date, NONE, Some(pr[p].digest[1].id),
                                               Some(pr[p].digest[1].notified_at # None))),
                                  None, now)
                ELSE IF pr[p].exc = "IntegrityError"
                THEN JobRunFinish(jobRuns, pr[p].run_id, "skipped",
                                  Some(Details(date, "unique_conflict", None, None)),
                                  None, now)
                ELSE JobRunFinish(jobRuns, pr[p].run_id, "error",
                                  Some(Details(date, NONE, None, None)),
                                  Some(Prefix(Str(pr[p].exc), MsgLimit)), now)
          /\ pr' = [pr EXCEPT ![p] = Leave(p, FALSE)]
       \/ /\ CanFault
          /\ pr[p].pc = "g_returned"
          /\ jobRuns' = JobRunFinish(jobRuns, pr[p].run_id, "error",
                                     Some(Details(date, NONE, None, None)),
                                     Some(Prefix(Str("OperationalError"), MsgLimit)), now)
          /\ pr' = [pr EXCEPT ![p] = Leave(p, TRUE)]
       \/ /\ CanFault
          /\ pr' = [pr EXCEPT ![p] = Leave(p, TRUE)]
          /\ UNCHANGED jobRuns
    /\ UNCHANGED <<now, tz, lfa, articles, wk, digests, files, sv, settings>>

\* the admin route renders the result or the error
RespondManual(p) ==
    /\ p \notin Schedulers
    /\ pr[p].pc \in {"g_returned", "g_raised"}
    /\ pr' = [pr EXCEPT ![p] = Leave(p, FALSE)]
    /\ UNCHANGED <<now, tz, lfa, articles, wk, digests, files, jobRuns, sv, settings>>

InitDigest ==
    /\ now = 0
    /\ tz \in 0..(TicksPerDay - 1)
    /\ lfa = InitialLfa
    /\ articles = StoredArticles
    /\ wk = << >>
    /\ digests = {}
    /\ files = [d \in Dates |-> NoFile]
    /\ jobRuns = << >>
    /\ pr = [p \in Procs |-> IdleProc]
    /\ sv = << >>
    /\ settings \in {[DefaultSettings EXCEPT !.digest_sections = ds] :
                        ds \in {DefaultSettings.digest_sections, <<"security_news">>}}

NextDigest ==
    \/ Tick
    \/ ArticleArrives
    \/ \E p \in Procs :
         \/ RunOnceStart(p)
         \/ ExistsCheck(p)
         \/ ManualStart(p)
         \/ ReadSnapshot(p)
         \/ Render(p)
         \/ InsertDigest(p)
         \/ UpdateAndCommit(p)
         \/ Notify(p)
         \/ RecordResult(p)
         \/ RespondManual(p)

SpecDigest == InitDigest /\ [][NextDigest]_vars

(***************************************************************************)
(* generate() called from the admin route alone, with telegram_notifications *)
(* switched on or off.                                                     *)
(***************************************************************************)
InitGenerate ==
    /\ now = 0
    /\ tz \in 0..(TicksPerDay - 1)
    /\ lfa = InitialLfa
    /\ articles = StoredArticles
    /\ wk = << >>
    /\ digests = {}
    /\ files = [d \in Dates |-> NoFile]
    /\ jobRuns = << >>
    /\ pr = [p \in Procs |-> IdleProc]
    /\ sv = << >>
    /\ settings \in {[DefaultSettings EXCEPT !.digest_sections = ds,
                                            !.telegram_notifications = tn] :
                        ds \in {DefaultSettings.digest_sections, <<"security_news">>},
                        tn \in BOOLEAN}

NextGenerate ==
    \/ Tick
    \/ ArticleArrives
    \/ \E p \in Procs \ Schedulers :
         \/ ManualStart(p)
         \/ ReadSnapshot(p)
         \/ Render(p)
         \/ InsertDigest(p)
         \/ UpdateAndCommit(p)
         \/ Notify(p)
         \/ RespondManual(p)

SpecGenerate == InitGenerate /\ [][NextGenerate]_vars

(***************************************************************************)
(* The headless browser of fetchers/browser.py: the module's two globals,  *)
(* and coroutines of one event loop calling startup, fetch_page and        *)
(* shutdown. A coroutine gives way to the others at each await.            *)
(***************************************************************************)
MaxLaunches == 3    \* browser processes launched in all

Callers == {"c1", "c2"}
IdleCaller == [pc |-> "idle", op |-> NONE, using |-> None]

\* where a coroutine goes on when startup() has returned to it
AfterStartup(c, browser) ==
    IF pr[c].op = "fetch_page" /\ browser # None
    THEN [pr[c] EXCEPT !.pc = "f_page", !.using = browser]
    ELSE IdleCaller

\* a call of startup() or fetch_page(): `if _browser is not None: return`, or
\* `if _browser is None: await startup()`, up to the first await
CallStartup(c) ==
    /\ pr[c].pc = "idle"
    /\ \E op \in {"startup", "fetch_page"} :
         LET called == [pr EXCEPT ![c].op = op]
         IN  pr' = [called EXCEPT ![c] =
                       IF sv.browser # None
                       THEN IF op = "fetch_page"
                            THEN [called[c] EXCEPT !.pc = "f_page", !.using = sv.browser]
                            ELSE IdleCaller
                       ELSE [called[c] EXCEPT !.pc = "s_start"]]
    /\ UNCHANGED <<now, tz, lfa, articles, wk, digests, files, jobRuns, sv, settings>>

\* startup: `_playwright = await async_playwright().start()`, then the launch is begun
PlaywrightStarted(c) ==
    /\ pr[c].pc = "s_start"
    /\ sv' = [sv EXCEPT !.playwright = Some(c)]
    /\ pr' = [pr EXCEPT ![c].pc = "s_launch"]
    /\ UNCHANGED <<now, tz, lfa, articles, wk, digests, files, jobRuns, settings>>

\* startup: `_browser = await _playwright.chromium.launch(...)`: a new browser process
\* runs and the global names it; startup returns
BrowserLaunched(c) ==
    /\ pr[c].pc = "s_launch"
    /\ sv.launches < MaxLaunches
    /\ LET b == sv.launches + 1 IN
       /\ sv' = [sv EXCEPT !.browser = Some(b), !.running = @ \cup {b},
                           !.launches = b]
       /\ pr' = [pr EXCEPT ![c] = AfterStartup(c, Some(b))]
    /\ UNCHANGED <<now, tz, lfa, articles, wk, digests, files, jobRuns, settings>>

\* fetch_page: the context, the page and its content on the browser it took from the
\* global; an error is caught and None returned
FetchPage(c) ==
    /\ pr[c].pc = "f_page"
    /\ pr' = [pr EXCEPT ![c] = IdleCaller]
    /\ UNCHANGED <<now, tz, lfa, articles, wk, digests, files, jobRuns, sv, settings>>

\* a call of shutdown(), up to its first await
CallShutdown(c) ==
    /\ pr[c].pc = "idle"
    /\ pr' = [pr EXCEPT ![c] =
                 IF sv.browser # None
                 THEN [pc |-> "x_close", op |-> "shutdown", using |-> sv.browser]
                 ELSE IF sv.playwright # None
                 THEN [pc |-> "x_stop", op |-> "shutdown", using |-> None]
                 ELSE IdleCaller]
    /\ UNCHANGED <<now, tz, lfa, articles, wk, digests, files, jobRuns, sv, settings>>

\* shutdown: `await _browser.close()` has ended the process; `_browser = None`; then
\* `if _playwright is not None: await _playwright.stop()`
BrowserClosed(c) ==
    /\ pr[c].pc = "x_close"
    /\ sv' = [sv EXCEPT !.browser = None, !.running = @ \ {pr[c].using[1]}]
    /\ pr' = [pr EXCEPT ![c] = IF sv.playwright # None
                               THEN [IdleCaller EXCEPT !.pc = "x_stop", !.op = "shutdown"]
                               ELSE IdleCaller]
    /\ UNCHANGED <<now, tz, lfa, articles, wk, digests, files, jobRuns, settings>>

\* shutdown: the driver has stopped; `_playwright = None`
PlaywrightStopped(c) ==
    /\ pr[c].pc = "x_stop"
    /\ sv' = [sv EXCEPT !.playwright = None]
    /\ pr' = [pr EXCEPT ![c] = IdleCaller]
    /\ UNCHANGED <<now, tz, lfa, articles, wk, digests, files, jobRuns, settings>>

InitBrowser ==
    /\ now = 0
    /\ tz = 0
    /\ lfa = InitialLfa
    /\ articles = << >>
    /\ wk = << >>
    /\ digests = {}
    /\ files = << >>
    /\ jobRuns = << >>
    /\ pr = [c \in Callers |-> IdleCaller]
    /\ sv = [playwright |-> None, browser |-> None, running |-> {}, launches |-> 0]
    /\ settings = DefaultSettings

NextBrowser ==
    \E c \in Callers :
        \/ CallStartup(c)
        \/ PlaywrightStarted(c)
        \/ BrowserLaunched(c)
        \/ FetchPage(c)
        \/ CallShutdown(c)
        \/ BrowserClosed(c)
        \/ PlaywrightStopped(c)

SpecBrowser == InitBrowser /\ [][NextBrowser]_vars

(***************************************************************************)
(* Fetcher.fetch: one GET with retries. The configuration is drawn, each   *)
(* request answers with a response or fails with a transient error.        *)
(***************************************************************************)
MaxRetries == 3     \* the largest max_retries configured

RetryDelays == {1, 2}
HttpStatuses == {200, 403, 404, 503}
TransientErrors == {"TimeoutException", "RequestError"}

\* a sleep of the same length after every failed attempt
BackoffConstant(retry_delay, attempt) == retry_delay
\* the sleep after the failed attempt of index `attempt` (from 0)
Backoff(retry_delay, attempt) == retry_delay * (attempt + 1)

\* `for attempt in range(max_retries)`: the next index, or the loop is over and
\* RuntimeError is raised from last_error
NextAttempt(call, attempt) ==
    IF attempt < call.max_retries
    THEN [call EXCEPT !.pc = "get", !.attempt = attempt]
    ELSE [call EXCEPT !.pc = "raised"]

InitRetry ==
    /\ now = 0
    /\ tz = 0
    /\ lfa = InitialLfa
    /\ articles = << >>
    /\ wk = << >>
    /\ digests = {}
    /\ files = << >>
    /\ jobRuns = << >>
    /\ pr = << >>
    /\ settings = DefaultSettings
    /\ sv \in {NextAttempt([max_retries |-> m, retry_delay |-> d, pc |-> "get",
                            attempt |-> 0, requests |-> 0, slept |-> <<>>,
                            status |-> None, last_error |-> None], 0) :
                  m \in 0..MaxRetries, d \in RetryDelays}

\* client.get answers: the FetchResult is returned, whatever the status code
GetResponds ==
    /\ sv.pc = "get"
    /\ \E code \in HttpStatuses :
         sv' = [sv EXCEPT !.pc = "returned", !.requests = @ + 1, !.status = Some(code)]
    /\ UNCHANGED <<now, tz, lfa, articles, wk, digests, files, jobRuns, pr, settings>>

\* client.get raises TimeoutException or RequestError: remember it; sleep unless this
\* was the last attempt
GetFails ==
    /\ sv.pc = "get"
    /\ \E e \in TransientErrors :
         LET failed == [sv EXCEPT !.requests = @ + 1, !.last_error = Some(e)]
         IN  sv' = IF sv.attempt < sv.max_retries - 1
                   THEN [failed EXCEPT !.pc = "sleep"]
                   ELSE NextAttempt(failed, sv.attempt + 1)
    /\ UNCHANGED <<now, tz, lfa, articles, wk, digests, files, jobRuns, pr, settings>>

\* `await asyncio.sleep(retry_delay * (attempt + 1))` ends; the loop goes round
SleepEnds ==
    /\ sv.pc = "sleep"
    /\ sv' = NextAttempt([sv EXCEPT !.slept = Append(@, Backoff(sv.retry_delay, sv.attempt))],
                         sv.attempt + 1)
    /\ UNCHANGED <<now, tz, lfa, articles, wk, digests, files, jobRuns, pr, settings>>

NextRetry ==
    \/ GetResponds
    \/ GetFails
    \/ SleepEnds

SpecRetry == InitRetry /\ [][NextRetry]_vars

\* a request ends and a sleep ends
SpecRetryFair == SpecRetry /\ WF_vars(NextRetry)

(***************************************************************************)
(* JobRunService on its own: any caller, any sequence of start and finish. *)
(***************************************************************************)
MaxLedgerRuns == 2

\* the status strings a caller can pass to finish
Statuses == {"running", "success", "error", "skipped"}
JobNames == {"fetch_worker", "digest_scheduler"}
LedgerDetails == {[note |-> "a"], [note |-> "b"]}
LedgerMessages == {<<"boom", 4>>}

\* JobRunService.start(job_name, details)
LedgerStart ==
    /\ Len(jobRuns) < MaxLedgerRuns
    /\ \E j \in JobNames : \E d \in LedgerDetails :
         jobRuns' = JobRunStart(jobRuns, j, d, now)
    /\ UNCHANGED <<now, tz, lfa, articles, wk, digests, files, pr, sv, settings>>

\* JobRunService.finish(run_id, status, details, error_message); an unknown run id
\* is logged and nothing is written
LedgerFinish ==
    /\ \E id \in 1..MaxLedgerRuns : \E st \in Statuses :
       \E d \in {None} \cup {Some(x) : x \in LedgerDetails} :
       \E m \in {None} \cup {Some(x) : x \in LedgerMessages} :
         jobRuns' = JobRunFinish(jobRuns, id, st, d, m, now)
    /\ UNCHANGED <<now, tz, lfa, articles, wk, digests, files, pr, sv, settings>>

InitLedger ==
    /\ now = 0
    /\ tz = 0
    /\ lfa = InitialLfa
    /\ articles = << >>
    /\ wk = << >>
    /\ digests = {}
    /\ files = << >>
    /\ jobRuns = << >>
    /\ pr = << >>
    /\ sv = << >>
    /\ settings = DefaultSettings

NextLedger ==
    \/ Tick
    \/ LedgerStart
    \/ LedgerFinish

SpecLedger == InitLedger /\ [][NextLedger]_vars

(***************************************************************************)
(* SettingsService: get, set, reset and _validate_value over the settings  *)
(* table. A Python value is held with its type: an int or bool in n, the   *)
(* characters of a str or the items of a list in s.                        *)
(***************************************************************************)
IntValue(n) == [t |-> "int", n |-> n, s |-> <<>>]
BoolValue(b) == [t |-> "bool", n |-> IF b THEN 1 ELSE 0, s |-> <<>>]
\* the float n + 0.5
FloatValue(n) == [t |-> "float", n |-> n, s |-> <<>>]
TextValue(chars) == [t |-> "str", n |-> 0, s |-> chars]
ListValue(items) == [t |-> "list", n |-> 0, s |-> items]
NoneValue == [t |-> "NoneType", n |-> 0, s |-> <<>>]

VALID_PROVIDERS == {TextValue(<<"a", "n", "t", "h", "r", "o", "p", "i", "c">>), TextValue(<<"o", "p", "e", "n", "a", "i">>), TextValue(<<"g", "o", "o", "g", "l", "e">>), TextValue(<<"o", "l", "l", "a", "m", "a">>)}
VALID_TIERS == {TextValue(<<"f", "a", "s", "t">>), TextValue(<<"s", "m", "a", "r", "t">>), TextValue(<<"s", "m", "a", "r", "t", "e", "s", "t">>)}

DEFAULTS == [fetch_interval_minutes |-> IntValue(60),
             fetch_worker_count |-> IntValue(3),
             digest_time |-> TextValue(<<"0", "8", ":", "0", "0">>),
             telegram_notifications |-> BoolValue(TRUE),
             digest_sections |-> ListValue(<<"security_news", "product_news", "market">>),
             summarizer_provider |-> TextValue(<<"o", "l", "l", "a", "m", "a">>),
             summarizer_tier |-> TextValue(<<"f", "a", "s", "t">>)]

TYPES == [fetch_interval_minutes |-> "number",
          fetch_worker_count |-> "number",
          digest_time |-> "time",
          telegram_notifications |-> "boolean",
          digest_sections |-> "multiselect",
          summarizer_provider |-> "text",
          summarizer_tier |-> "text"]

OPTIONS == {"security_news", "product_news", "market", "research"}

\* the keys and values the callers pass
CallKeys == {"fetch_interval_minutes", "digest_time", "telegram_notifications",
             "digest_sections", "summarizer_provider", "summarizer_tier", "colour"}
CallValues ==
    {IntValue(1), IntValue(0), FloatValue(1), BoolValue(TRUE), BoolValue(FALSE), NoneValue,
     TextValue(<<"2", "3", ":", "5", "9">>), TextValue(<<"2", "4", ":", "0", "0">>), TextValue(<<"1", "2", ":", "6", "0">>), TextValue(<<"+", "1", ":", "3", "0">>), TextValue(<<"8", ":", "0", "0">>),
     TextValue(<<"o", "p", "e", "n", "a", "i">>), TextValue(<<"s", "m", "a", "r", "t">>),
     ListValue(<<"research">>), ListValue(<<"sports">>)}

DigitValue == [c \in {"0", "1", "2", "3", "4", "5", "6", "7", "8", "9"} |->
                 CASE c = "0" -> 0 [] c = "1" -> 1 [] c = "2" -> 2 [] c = "3" -> 3
                   [] c = "4" -> 4 [] c = "5" -> 5 [] c = "6" -> 6 [] c = "7" -> 7
                   [] c = "8" -> 8 [] c = "9" -> 9]
IsDigit(c) == c \in DOMAIN DigitValue

\* int(text) of a two-character text: None when int() raises ValueError. int()
\* strips white space and takes an optional sign before the digits.
IntOfTwo(text) ==
    CASE IsDigit(text[1]) /\ IsDigit(text[2]) ->
             Some(10 * DigitValue[text[1]] + DigitValue[text[2]])
      [] text[1] \in {"+", " "} /\ IsDigit(text[2]) -> Some(DigitValue[text[2]])
      [] text[1] = "-" /\ IsDigit(text[2]) -> Some(0 - DigitValue[text[2]])
      [] IsDigit(text[1]) /\ text[2] = " " -> Some(DigitValue[text[1]])
      [] OTHER -> None

\* the "time" branch of _validate_value: TRUE when no ValueError is raised
TimeAccepted(value) ==
    /\ value.t = "str"
    /\ Len(value.s) = 5
    /\ value.s[3] = ":"
    /\ \A i \in {1, 2, 4, 5} : value.s[i] # ":"
    /\ LET h == IntOfTwo(SubSeq(value.s, 1, 2))
           m == IntOfTwo(SubSeq(value.s, 4, 5))
       IN  /\ h # None
           /\ m # None
           /\ 0 <= h[1] /\ h[1] <= 23
           /\ 0 <= m[1] /\ m[1] <= 59

\* _validate_value: TRUE when it returns, FALSE when it raises ValueError
ValidateValue(key, value) ==
    CASE TYPES[key] = "number" -> value.t \in {"int", "bool"} /\ ~(value.n < 1)
      [] TYPES[key] = "time" -> TimeAccepted(value)
      [] TYPES[key] = "boolean" -> value.t = "bool"
      [] TYPES[key] = "multiselect" ->
             /\ value.t = "list"
             /\ \A i \in DOMAIN value.s : value.s[i] \in OPTIONS
      [] TYPES[key] = "text" ->
             /\ value.t = "str"
             /\ key = "summarizer_provider" => value \in VALID_PROVIDERS
             /\ key = "summarizer_tier" => value \in VALID_TIERS

\* INSERT ... ON CONFLICT (key) DO UPDATE of the row {"value": value}
Upsert(table, key, value) ==
    [k \in DOMAIN table \cup {key} |-> IF k = key THEN [value |-> value] ELSE table[k]]

\* a read that ignores the stored row
StoredOrDefaultIgnoringRow(table, key) == DEFAULTS[key]

\* get: the stored row's "value", or the default when there is no row
StoredOrDefault(table, key) ==
    IF key \in DOMAIN table THEN table[key].value ELSE DEFAULTS[key]

Client == "client"
NoCall == [op |-> NONE, arg |-> NoneValue]
Call(op, key, arg, outcome, returned, after) ==
    [op |-> op, key |-> key, arg |-> arg, outcome |-> outcome, returned |-> returned,
     after |-> after]

\* the successful set or reset of the same key that the call before this one was
Preceding(key) ==
    LET c == pr[Client] IN
    IF c.op \in {"set", "reset"} /\ c.key = key /\ c.outcome = "ok"
    THEN [op |-> c.op, arg |-> c.arg]
    ELSE NoCall

\* SettingsService.get(key)
SettingsGet ==
    /\ \E key \in CallKeys :
         pr' = [pr EXCEPT ![Client] =
                  IF key \notin DOMAIN DEFAULTS
                  THEN Call("get", key, NoneValue, "KeyError", NoneValue, NoCall)
                  ELSE Call("get", key, NoneValue, "ok",
                            StoredOrDefault(settings, key), Preceding(key))]
    /\ UNCHANGED <<now, tz, lfa, articles, wk, digests, files, jobRuns, sv, settings>>

\* SettingsService.set(key, value)
SettingsSet ==
    /\ \E key \in CallKeys : \E value \in CallValues :
         IF key \notin DOMAIN DEFAULTS
         THEN /\ pr' = [pr EXCEPT ![Client] =
                          Call("set", key, value, "KeyError", NoneValue, NoCall)]
              /\ UNCHANGED settings
         ELSE IF ~ValidateValue(key, value)
         THEN /\ pr' = [pr EXCEPT ![Client] =
                          Call("set", key, value, "ValueError", NoneValue, NoCall)]
              /\ UNCHANGED settings
         ELSE /\ pr' = [pr EXCEPT ![Client] =
                          Call("set", key, value, "ok", NoneValue, NoCall)]
              /\ settings' = Upsert(settings, key, value)
    /\ UNCHANGED <<now, tz, lfa, articles, wk, digests, files, jobRuns, sv>>

\* SettingsService.reset(key): delete the row if there is one
SettingsReset ==
    /\ \E key \in CallKeys :
         IF key \notin DOMAIN DEFAULTS
         THEN /\ pr' = [pr EXCEPT ![Client] =
                          Call("reset", key, NoneValue, "KeyError", NoneValue, NoCall)]
              /\ UNCHANGED settings
         ELSE /\ pr' = [pr EXCEPT ![Client] =
                          Call("reset", key, NoneValue, "ok", NoneValue, NoCall)]
              /\ settings' = Restrict(settings, DOMAIN settings \ {key})
    /\ UNCHANGED <<now, tz, lfa, articles, wk, digests, files, jobRuns, sv>>

InitSettings ==
    /\ now = 0
    /\ tz = 0
    /\ lfa = InitialLfa
    /\ articles = << >>
    /\ wk = << >>
    /\ digests = {}
    /\ files = << >>
    /\ jobRuns = << >>
    /\ pr = [c \in {Client} |-> Call(NONE, NONE, NoneValue, "ok", NoneValue, NoCall)]
    /\ sv = << >>
    /\ settings = << >>

NextSettings ==
    \/ SettingsGet
    \/ SettingsSet
    \/ SettingsReset

SpecSettings == InitSettings /\ [][NextSettings]_vars

(***************************************************************************)
(* SummarizerService.summarize on its own: the inputs are drawn, the        *)
(* backend's outcome is drawn, the function applied.                        *)
(***************************************************************************)
\* str.strip() of a sequence of characters
RECURSIVE LStrip(_)
LStrip(chars) ==
    IF chars # <<>> /\ Head(chars) = " " THEN LStrip(Tail(chars)) ELSE chars

RECURSIVE RStrip(_)
RStrip(chars) ==
    IF chars # <<>> /\ chars[Len(chars)] = " "
    THEN RStrip(SubSeq(chars, 1, Len(chars) - 1))
    ELSE chars

Strip(chars) == RStrip(LStrip(chars))

SummaryTitles == {TextValue(<<>>), TextValue(<<" ">>), TextValue(<<"C", "V", "E">>)}
SummaryContents == {TextValue(<<"x">>), TextValue(<<"{", "}">>)}
SummaryUrls == {TextValue(<<"u", "1">>), TextValue(<<"u", "2">>)}

\* what llm.complete_json returned: a dict or not, with or without a "summary" key
Response(is_dict, has_summary, summary) ==
    [is_dict |-> is_dict, has_summary |-> has_summary, summary |-> summary]
NoResponse == Response(FALSE, FALSE, NoneValue)

Responses ==
    {Response(FALSE, FALSE, NoneValue), Response(TRUE, FALSE, NoneValue)} \cup
    {Response(TRUE, TRUE, v) :
        v \in {TextValue(<<>>), TextValue(<<" ", " ">>), IntValue(7), NoneValue,
               TextValue(<<" ", "o", "k", " ">>), TextValue(<<"o", "k">>)}}

\* the settings reads, get_llm and complete_json either raise or return a response
BackendOutcomes ==
    {[kind |-> "raise", error |-> e, response |-> NoResponse] :
        e \in {"ConnectionError", "ValueError"}} \cup
    {[kind |-> "return", error |-> NONE, response |-> r] : r \in Responses}
NoOutcome == [kind |-> "pending", error |-> NONE, response |-> NoResponse]

SummaryResult(summary, url, title) == [summary |-> summary, url |-> url, title |-> title]

\* a summarize that takes any string the backend returns
SummarizeUnchecked(title, content, url, backend) ==
    IF backend.kind = "raise" \/ ~backend.response.is_dict
    THEN SummaryResult(title, url, title)
    ELSE LET summary == IF backend.response.has_summary
                        THEN backend.response.summary
                        ELSE TextValue(<<>>)
         IN  IF summary.t # "str"
             THEN SummaryResult(title, url, title)
             ELSE SummaryResult(TextValue(Strip(summary.s)), url, title)

\* summarize: the try body, and the except clause that returns the title; a response
\* that is not a dict raises at result.get
Summarize(title, content, url, backend) ==
    IF backend.kind = "raise" \/ ~backend.response.is_dict
    THEN SummaryResult(title, url, title)
    ELSE LET summary == IF backend.response.has_summary
                        THEN backend.response.summary
                        ELSE TextValue(<<>>)
         IN  IF summary.t # "str" \/ Strip(summary.s) = <<>>
             THEN SummaryResult(title, url, title)
             ELSE SummaryResult(TextValue(Strip(summary.s)), url, title)

InitSummarize ==
    /\ now = 0
    /\ tz = 0
    /\ lfa = InitialLfa
    /\ articles = << >>
    /\ wk = << >>
    /\ digests = {}
    /\ files = << >>
    /\ jobRuns = << >>
    /\ pr = << >>
    /\ sv \in [title : SummaryTitles, content : SummaryContents, url : SummaryUrls,
               backend : {NoOutcome}, done : {FALSE},
               result : {SummaryResult(NoneValue, NoneValue, NoneValue)}]
    /\ settings = DefaultSettings

ApplySummarize ==
    /\ ~sv.done
    /\ \E b \in BackendOutcomes :
         sv' = [sv EXCEPT !.done = TRUE, !.backend = b,
                          !.result = Summarize(sv.title, sv.content, sv.url, b)]
    /\ UNCHANGED <<now, tz, lfa, articles, wk, digests, files, jobRuns, pr, settings>>

NextSummarize == ApplySummarize

SpecSummarize == InitSummarize /\ [][NextSummarize]_vars

(***************************************************************************)
(* TelegramNotifier.send_digest_notification on its own: the notifier's    *)
(* configuration and the digest are drawn, each send succeeds or raises.   *)
(***************************************************************************)
NotifierTokens == {"", "token"}
NotifierChatIds == {<< >>, <<11>>, <<11, 22>>}
NotifierHtmlPaths == {None, Some("data/digests/digest-0.html")}
ArticleCounts == {0, 1, 2}

\* the message text: header with the date, "N article(s)", and the link when the
\* digest has a file
Message(html_path, article_count) ==
    [count |-> article_count,
     noun |-> IF article_count # 1 THEN "articles" ELSE "article",
     link |-> IF html_path # None THEN Some("digest-0.html") ELSE None]

\* send_digest_notification up to the construction of the Bot
NotifyCall ==
    /\ sv.pc = "call"
    /\ IF sv.token = "" \/ sv.chat_ids = << >>
       THEN sv' = [sv EXCEPT !.pc = "returned", !.returned = "False"]
       ELSE sv' = [sv EXCEPT !.pc = "sending", !.i = 1]
    /\ UNCHANGED <<now, tz, lfa, articles, wk, digests, files, jobRuns, pr, settings>>

\* a send loop that goes on after a send has raised
NotifySendIgnoringErrors ==
    /\ sv.pc = "sending"
    /\ IF sv.i > Len(sv.chat_ids)
       THEN sv' = [sv EXCEPT !.pc = "returned", !.returned = "True"]
       ELSE \E ok \in BOOLEAN :
              IF ok
              THEN sv' = [sv EXCEPT !.i = @ + 1,
                            !.sent = Append(@, <<sv.chat_ids[sv.i],
                                                 Message(sv.html_path, sv.article_count)>>)]
              ELSE sv' = [sv EXCEPT !.i = @ + 1, !.failed = TRUE]
    /\ UNCHANGED <<now, tz, lfa, articles, wk, digests, files, jobRuns, pr, settings>>

\* one turn of the loop over the chat ids: bot.send_message returns or raises; the last
\* turn returns True, the except clause returns False
NotifySend ==
    /\ sv.pc = "sending"
    /\ IF sv.i > Len(sv.chat_ids)
       THEN sv' = [sv EXCEPT !.pc = "returned", !.returned = "True"]
       ELSE \E ok \in BOOLEAN :
              IF ok
              THEN sv' = [sv EXCEPT !.i = @ + 1,
                            !.sent = Append(@, <<sv.chat_ids[sv.i],
                                                 Message(sv.html_path, sv.article_count)>>)]
              ELSE sv' = [sv EXCEPT !.pc = "returned", !.returned = "False",
                                    !.failed = TRUE]
    /\ UNCHANGED <<now, tz, lfa, articles, wk, digests, files, jobRuns, pr, settings>>

InitNotify ==
    /\ now = 0
    /\ tz = 0
    /\ lfa = InitialLfa
    /\ articles = << >>
    /\ wk = << >>
    /\ digests = {}
    /\ files = << >>
    /\ jobRuns = << >>
    /\ pr = << >>
    /\ sv \in [token : NotifierTokens, chat_ids : NotifierChatIds,
               html_path : NotifierHtmlPaths, article_count : ArticleCounts,
               pc : {"call"}, i : {0}, sent : {<< >>}, failed : {FALSE},
               returned : {NONE}]
    /\ settings = DefaultSettings

NextNotify ==
    \/ NotifyCall
    \/ NotifySend

SpecNotify == InitNotify /\ [][NextNotify]_vars

(***************************************************************************)
(* compute_next_run_utc on its own. A datetime is a day number and a time  *)
(* of day; its seconds stand for everything below the minute.              *)
(***************************************************************************)
DateTime(day, hour, minute, second) ==
    [day |-> day, hour |-> hour, minute |-> minute, second |-> second]

\* the instant as a number, for the comparison of two datetimes
Seconds(dt) == ((dt.day * 24 + dt.hour) * 60 + dt.minute) * 60 + dt.second

NowChoices ==
    {DateTime(d, h, m, x) : d \in {0, 1}, h \in {0, 8, 23}, m \in {0, 30, 59},
                            x \in {0, 30}}
DigestTimes == {<<"0", "0", ":", "0", "0">>, <<"0", "8", ":", "0", "0">>, <<"0", "8", ":", "3", "0">>, <<"2", "3", ":", "5", "9">>}

\* digest_time_str.split(":"), for a text with one colon
SplitColon(chars) ==
    LET k == CHOOSE i \in 1..Len(chars) : chars[i] = ":"
    IN  <<SubSeq(chars, 1, k - 1), SubSeq(chars, k + 1, Len(chars))>>

\* compute_next_run_utc with <= in the comparison
ComputeNextRunUtcInclusive(now_utc, digest_time_str) ==
    LET parts == SplitColon(digest_time_str)
        hour == IntOfTwo(parts[1])[1]
        minute == IntOfTwo(parts[2])[1]
        target_today == [now_utc EXCEPT !.hour = hour, !.minute = minute, !.second = 0]
    IN  IF Seconds(now_utc) <= Seconds(target_today)
        THEN target_today
        ELSE [target_today EXCEPT !.day = @ + 1]

\* compute_next_run_utc
ComputeNextRunUtc(now_utc, digest_time_str) ==
    LET parts == SplitColon(digest_time_str)
        hour == IntOfTwo(parts[1])[1]
        minute == IntOfTwo(parts[2])[1]
        target_today == [now_utc EXCEPT !.hour = hour, !.minute = minute, !.second = 0]
    IN  IF Seconds(now_utc) < Seconds(target_today)
        THEN target_today
        ELSE [target_today EXCEPT !.day = @ + 1]

InitNextRun ==
    /\ now = 0
    /\ tz = 0
    /\ lfa = InitialLfa
    /\ articles = << >>
    /\ wk = << >>
    /\ digests = {}
    /\ files = << >>
    /\ jobRuns = << >>
    /\ pr = << >>
    /\ sv \in [now_utc : NowChoices, digest_time_str : DigestTimes, done : {FALSE},
               result : {DateTime(0, 0, 0, 0)}]
    /\ settings = DefaultSettings

ApplyNextRun ==
    /\ ~sv.done
    /\ sv' = [sv EXCEPT !.done = TRUE,
                        !.result = ComputeNextRunUtc(sv.now_utc, sv.digest_time_str)]
    /\ UNCHANGED <<now, tz, lfa, articles, wk, digests, files, jobRuns, pr, settings>>

NextNextRun == ApplyNextRun

SpecNextRun == InitNextRun /\ [][NextNextRun]_vars

(***************************************************************************)
(* The two background loops, run_worker and scheduler_loop, each in its    *)
(* own process with its own shutdown_event. A fetch cycle and a digest run *)
(* are taken whole here: each returns or raises.                           *)
(***************************************************************************)
MaxSleep == 2       \* the longest sleep, in polling steps of one second

Loops == {"fetch_worker", "digest_scheduler"}
IdleLoop == [pc |-> "check", shutdown |-> FALSE, left |-> 0, last_failed |-> FALSE,
             signalled_at |-> NONE]

\* handle_signal: SIGINT or SIGTERM sets the process's shutdown_event
HandleSignal(l) ==
    /\ ~pr[l].shutdown
    /\ pr[l].pc # "stopped"
    /\ pr' = [pr EXCEPT ![l].shutdown = TRUE, ![l].signalled_at = pr[l].pc]
    /\ UNCHANGED <<now, tz, lfa, articles, wk, digests, files, jobRuns, sv, settings>>

\* `while not shutdown_event.is_set()`: leave the loop, or begin the body
LoopCheck(l) ==
    /\ pr[l].pc = "check"
    /\ pr' = [pr EXCEPT ![l].pc = IF pr[l].shutdown THEN "stopped"
                                  ELSE IF l = "fetch_worker" THEN "cycle" ELSE "read"]
    /\ UNCHANGED <<now, tz, lfa, articles, wk, digests, files, jobRuns, sv, settings>>

\* scheduler_loop: read digest_time (a failing read gives "08:00"), compute the next
\* run and the seconds to sleep, which are more than 0
ReadDigestTime(l) ==
    /\ pr[l].pc = "read"
    /\ \E seconds \in 1..MaxSleep :
         pr' = [pr EXCEPT ![l].pc = "sleeping", ![l].left = seconds]
    /\ UNCHANGED <<now, tz, lfa, articles, wk, digests, files, jobRuns, sv, settings>>

\* the try body: fetch_due_sources, or run_once, returns or raises; after a cycle that
\* returned the worker logs the stats and computes the sleep time
RunIteration(l) ==
    /\ pr[l].pc \in {"cycle", "run"}
    /\ \/ /\ l = "fetch_worker"
          /\ \E seconds \in 1..MaxSleep :
               pr' = [pr EXCEPT ![l].pc = "sleeping", ![l].left = seconds,
                                ![l].last_failed = FALSE]
       \/ /\ l = "digest_scheduler"
          /\ pr' = [pr EXCEPT ![l].pc = "check", ![l].last_failed = FALSE]
       \/ pr' = [pr EXCEPT ![l].pc = "caught", ![l].last_failed = TRUE]
    /\ UNCHANGED <<now, tz, lfa, articles, wk, digests, files, jobRuns, sv, settings>>

\* a loop without the except clause: the exception ends the coroutine
CaughtNowhere(l) ==
    /\ pr[l].pc = "caught"
    /\ pr' = [pr EXCEPT ![l].pc = "stopped"]
    /\ UNCHANGED <<now, tz, lfa, articles, wk, digests, files, jobRuns, sv, settings>>

\* `except Exception`: log the error; the worker goes on to its sleep, the scheduler
\* to the top of its loop
Caught(l) ==
    /\ pr[l].pc = "caught"
    /\ IF l = "fetch_worker"
       THEN \E seconds \in 1..MaxSleep :
              pr' = [pr EXCEPT ![l].pc = "sleeping", ![l].left = seconds]
       ELSE pr' = [pr EXCEPT ![l].pc = "check"]
    /\ UNCHANGED <<now, tz, lfa, articles, wk, digests, files, jobRuns, sv, settings>>

\* a sleep that looks only at the time
SleepIgnoringShutdown(l) ==
    /\ pr[l].pc = "sleeping"
    /\ IF pr[l].left = 0
       THEN pr' = [pr EXCEPT ![l].pc = IF l = "fetch_worker" THEN "check"
                                       ELSE "after_sleep"]
       ELSE pr' = [pr EXCEPT ![l].left = @ - 1]
    /\ UNCHANGED <<now, tz, lfa, articles, wk, digests, files, jobRuns, sv, settings>>

\* the sleep in chunks: `while not shutdown_event.is_set() and time() < sleep_end:
\* await asyncio.sleep(1)`; one step is the end of one sleep(1) and the next test
Sleep(l) ==
    /\ pr[l].pc = "sleeping"
    /\ IF pr[l].shutdown \/ pr[l].left = 0
       THEN pr' = [pr EXCEPT ![l].pc = IF l = "fetch_worker" THEN "check"
                                       ELSE "after_sleep"]
       ELSE pr' = [pr EXCEPT ![l].left = @ - 1]
    /\ UNCHANGED <<now, tz, lfa, articles, wk, digests, files, jobRuns, sv, settings>>

\* scheduler_loop after the sleep: `if shutdown_event.is_set(): break`, else run_once
AfterSleep(l) ==
    /\ pr[l].pc = "after_sleep"
    /\ pr' = [pr EXCEPT ![l].pc = IF pr[l].shutdown THEN "stopped" ELSE "run"]
    /\ UNCHANGED <<now, tz, lfa, articles, wk, digests, files, jobRuns, sv, settings>>

InitLoops ==
    /\ now = 0
    /\ tz = 0
    /\ lfa = InitialLfa
    /\ articles = << >>
    /\ wk = << >>
    /\ digests = {}
    /\ files = << >>
    /\ jobRuns = << >>
    /\ pr = [l \in Loops |-> IdleLoop]
    /\ sv = << >>
    /\ settings = DefaultSettings

\* the steps of a loop's own code
LoopStep(l) ==
    \/ LoopCheck(l)
    \/ ReadDigestTime(l)
    \/ RunIteration(l)
    \/ Caught(l)
    \/ Sleep(l)
    \/ AfterSleep(l)

NextLoops ==
    \E l \in Loops :
        \/ HandleSignal(l)
        \/ LoopCheck(l)
        \/ ReadDigestTime(l)
        \/ RunIteration(l)
        \/ Caught(l)
        \/ Sleep(l)
        \/ AfterSleep(l)

SpecLoops == InitLoops /\ [][NextLoops]_vars

\* each process keeps running: the event loop goes on scheduling the loop's coroutine
SpecLoopsFair == SpecLoops /\ \A l \in Loops : WF_vars(LoopStep(l))

(***************************************************************************)
(* Properties of the fetch workers (SpecFetch).                            *)
(***************************************************************************)
\* C1: between a cycle's claim of a source and the commit or rollback of that
\* iteration's transaction no other cycle holds the same source, and a cycle works on
\* a source (fetch, save, set last_fetched_at, handle its error) only while holding it.
C1_NoSourceHeldTwice ==
    /\ \A w1 \in Workers : \A w2 \in Workers \ {w1} :
          wk[w1].held # NONE => wk[w2].held # wk[w1].held
    /\ \A w \in Workers :
          (wk[w].pc \in {"fetch", "commit", "except"}) <=> (wk[w].held # NONE)

\* C1 witness: two concurrent cycles each hold a source at the same moment.
C1_TwoCyclesHolding ==
    \E w1 \in Workers : \E w2 \in Workers \ {w1} :
        wk[w1].held # NONE /\ wk[w2].held # NONE

\* the sources whose fetch a cycle recorded as failed
FailedIn(w) == {wk[w].stats.errors[i][1] : i \in DOMAIN wk[w].stats.errors}

\* enabled and due at time t, given the last_fetched_at values `last`
EnabledAndDue(last, t) ==
    {s \in Sources : /\ SourceRow[s].enabled
                     /\ \/ last[s] = None
                        \/ last[s][1] + SourceRow[s].fetch_interval_minutes <= t}

\* a cycle that ran with no other worker active and with max_sources >= the number of
\* sources, at the return of fetch_due_sources
SoloCycleDone(w) ==
    /\ wk[w].pc = "return"
    /\ wk[w].alone
    /\ wk[w].max_sources >= Cardinality(Sources)

\* C3 as stated: a single-worker cycle with max_sources >= the number of sources
\* claims exactly the enabled due sources, every one of them gets a new
\* last_fetched_at, and the disabled and not-due sources keep theirs.
C3_ClaimedAllGetNewLfa ==
    \A w \in Workers : SoloCycleDone(w) =>
        /\ wk[w].attempted = EnabledAndDue(wk[w].lfa0, wk[w].txnow)
        /\ \A s \in wk[w].attempted : lfa[s] # None /\ lfa[s] # wk[w].lfa0[s]
        /\ \A s \in Sources \ wk[w].attempted : lfa[s] = wk[w].lfa0[s]

\* C3 amended: such a cycle claims exactly the enabled due sources; a claimed source
\* whose fetch succeeds gets a new last_fetched_at, one whose fetch raises keeps its
\* old value, and the disabled and not-due sources keep theirs.
C3_ClaimedExactlyDue ==
    \A w \in Workers : SoloCycleDone(w) =>
        /\ wk[w].attempted = EnabledAndDue(wk[w].lfa0, wk[w].txnow)
        /\ \A s \in wk[w].attempted \ FailedIn(w) :
              lfa[s] # None /\ lfa[s] # wk[w].lfa0[s]
        /\ \A s \in wk[w].attempted \cap FailedIn(w) : lfa[s] = wk[w].lfa0[s]
        /\ \A s \in Sources \ wk[w].attempted : lfa[s] = wk[w].lfa0[s]

\* C3 witness: a solo cycle has returned having claimed a due source that was fetched,
\* a due source whose fetch raised, and having left a not-due and a disabled source.
C3_SoloCycleReturned ==
    \E w \in Workers :
        /\ SoloCycleDone(w)
        /\ "A" \in wk[w].attempted \ FailedIn(w)
        /\ "B" \in wk[w].attempted \cap FailedIn(w)
        /\ "C" \notin wk[w].attempted
        /\ "D" \notin wk[w].attempted

\* C6 as stated: while a worker is in a fetch cycle the ledger holds a running
\* "fetch_cycle" job run for it.
C6_FetchCycleRecorded ==
    \A w \in Workers : wk[w].pc # "idle" =>
        \E i \in DOMAIN jobRuns :
            jobRuns[i].job_name = "fetch_cycle" /\ jobRuns[i].status = "running"

\* C8: when the fetch of a claimed source raises, the cycle appends "{name}: {error}"
\* to its errors, leaves last_fetched_at and the articles table as they were, does not
\* count the source as fetched, releases the source and goes on to the next claim (or
\* returns when range(max_sources) is exhausted).
C8_ErrorRollsBackAndContinues ==
    [][\A w \in Workers :
          (wk[w].pc = "except" /\ wk'[w].pc # "except") =>
              /\ wk'[w].stats.errors =
                    Append(wk[w].stats.errors, <<SourceRow[wk[w].held].name, wk[w].exc>>)
              /\ lfa' = lfa
              /\ articles' = articles
              /\ wk'[w].stats.sources_fetched = wk[w].stats.sources_fetched
              /\ wk'[w].stats.articles_new = wk[w].stats.articles_new
              /\ wk'[w].held = NONE
              /\ wk'[w].pc = IF wk[w].iter < wk[w].max_sources THEN "claim" ELSE "return"
      ]_vars

\* C8 witness: a cycle that recorded a failed source has claimed the next one.
C8_ClaimedAfterError ==
    \E w \in Workers :
        /\ wk[w].stats.errors # <<>>
        /\ wk[w].held # NONE
        /\ wk[w].held \notin FailedIn(w)

(***************************************************************************)
(* Properties of _save_articles (SpecSave).                                *)
(***************************************************************************)
\* candidate i's url is already stored when the loop reaches it: committed before the
\* call, or added by an earlier candidate of the same call
StoredAt(i) ==
    \/ sv.cands[i].url \in sv.stored
    \/ \E j \in 1..(i - 1) :
          /\ sv.cands[j].url = sv.cands[i].url
          /\ IsRecentEnough(sv.cands[j], GetDateCutoff(sv.last, now))
          /\ MatchesKeywords(sv.cands[j], sv.source)

RecentAt(i) == IsRecentEnough(sv.cands[i], GetDateCutoff(sv.last, now))
MatchesAt(i) == MatchesKeywords(sv.cands[i], sv.source)

\* C7: each candidate passes the gates in the order dedup, recency, keyword and stops
\* at the first that rejects it; it increments exactly one of duplicate, old,
\* filtered, saved, so the candidates found are the sum of the four; a candidate both
\* stored and too old counts as a duplicate only.
C7_GatesInOrder ==
    sv.done =>
        LET r == sv.result
            n == Len(sv.cands)
            dup == {i \in 1..n : StoredAt(i)}
            old == {i \in 1..n : ~StoredAt(i) /\ ~RecentAt(i)}
            fil == {i \in 1..n : ~StoredAt(i) /\ RecentAt(i) /\ ~MatchesAt(i)}
            sav == {i \in 1..n : ~StoredAt(i) /\ RecentAt(i) /\ MatchesAt(i)}
        IN  /\ Len(r.checked) = n
            /\ \A i \in 1..n :
                  r.checked[i] = IF i \in dup THEN <<"dedup">>
                                 ELSE IF i \in old THEN <<"dedup", "recency">>
                                 ELSE <<"dedup", "recency", "keyword">>
            /\ r.duplicate = Cardinality(dup)
            /\ r.old = Cardinality(old)
            /\ r.filtered = Cardinality(fil)
            /\ r.saved = Cardinality(sav)
            /\ Len(r.added) = r.saved
            /\ n = r.duplicate + r.old + r.filtered + r.saved

\* C7 witness: a lone candidate that is both already stored and too old has been
\* counted, as a duplicate and not as old.
C7_StoredAndOldIsDuplicate ==
    /\ sv.done
    /\ Len(sv.cands) = 1
    /\ StoredAt(1) /\ ~RecentAt(1)
    /\ sv.result.duplicate = 1 /\ sv.result.old = 0

(***************************************************************************)
(* Properties of the digest path (SpecDigest).                             *)
(***************************************************************************)
\* C2: under any interleaving of scheduler runs and manual generate() calls the
\* digests table holds at most one row for any date.
C2_OneDigestPerDate ==
    \A r1 \in digests : \A r2 \in digests : r1.date = r2.date => r1.id = r2.id

\* C2 witness: a generate() was refused by the unique constraint for a date that has
\* its digest.
C2_SecondInsertRefused ==
    \E p \in Procs :
        /\ pr[p].pc = "g_raised"
        /\ pr[p].exc = "IntegrityError"
        /\ \E row \in digests : row.date = pr[p].today[1]

\* the id of the digest p's current generate() inserts
DigestIdOf(p) == <<p, pr[p].runs>>

\* p and q ran generate() for the same date over the same articles, both are past
\* the insert, neither met a database failure, and no digest for the date predates them
SameDateRace(p, q) ==
    /\ pr[p].pc \in {"g_notify", "g_returned", "g_raised"}
    /\ pr[q].pc \in {"g_notify", "g_returned", "g_raised"}
    /\ pr[p].today # None /\ pr[p].today = pr[q].today
    /\ DOMAIN pr[p].snapshot = DOMAIN pr[q].snapshot
    /\ pr[p].exc # "OperationalError" /\ pr[q].exc # "OperationalError"
    /\ \A row \in digests :
          row.date = pr[p].today[1] => row.id \in {DigestIdOf(p), DigestIdOf(q)}

\* p committed its digest, q was refused and attached nothing
WonAgainst(p, q) ==
    /\ pr[p].digest # None
    /\ \E row \in digests : row.id = DigestIdOf(p) /\ row.date = pr[p].today[1]
    /\ pr[q].pc = "g_raised" /\ pr[q].exc = "IntegrityError"
    /\ pr[q].digest = None
    /\ ~\E row \in digests : row.id = DigestIdOf(q)
    /\ \A u \in DOMAIN pr[p].snapshot : articles[u].digest_id = Some(DigestIdOf(p))

\* C4: when two processes run generate() concurrently for the same date over the same
\* unprocessed articles, exactly one commits its digest, the other fails on the unique
\* constraint and attaches no article, and every article of the snapshot carries the
\* committed digest's id.
C4_OneWinnerOfRace ==
    \A p \in Procs : \A q \in Procs \ {p} :
        SameDateRace(p, q) => (WonAgainst(p, q) \/ WonAgainst(q, p))

\* C4 witness: both generate() calls of a same-date race are over, one returned its
\* digest and the other raised the unique-constraint error.
C4_RaceDecided ==
    \E p \in Procs : \E q \in Procs \ {p} :
        /\ SameDateRace(p, q)
        /\ pr[p].pc = "g_returned"
        /\ pr[q].pc = "g_raised"

\* C5 as stated: once the scheduler is back from its runs, every run has its job-run
\* row and every row is terminal, whichever step failed.
C5_EveryRunTerminal ==
    (\A p \in Schedulers : pr[p].pc = "idle") =>
        /\ Len(jobRuns) =
              Cardinality({x \in Schedulers \X (1..MaxRuns) : x[2] <= pr[x[1]].runs})
        /\ \A i \in DOMAIN jobRuns : jobRuns[i].status \in {"success", "error", "skipped"}

\* C9 as stated: an article's digest_id, once set, is never changed or cleared.
C9_DigestIdAssignedOnce ==
    [][\A u \in DOMAIN articles :
          articles[u].digest_id # None => articles'[u].digest_id = articles[u].digest_id
      ]_vars

\* C10 as stated: two scheduler runs for the same date, back to back with nothing else
\* running and no failure injected: the first succeeds, the second finds the digest,
\* does not call generate(), writes no file and is skipped as already_exists.
C10_SecondRunSkipped ==
    \A p \in Schedulers :
        ( /\ pr[p].pc = "idle" /\ pr[p].runs = 2
          /\ \A q \in Procs \ {p} : pr[q].runs = 0
          /\ Faults = 0
          /\ CandNew.url \notin DOMAIN articles
          /\ Len(jobRuns) = 2
          /\ jobRuns[1].details.digest_date = jobRuns[2].details.digest_date
          /\ jobRuns[1].status = "success" )
        => /\ jobRuns[2].status = "skipped"
           /\ jobRuns[2].details.reason = "already_exists"
           /\ ~pr[p].generated
           /\ \A d \in Dates : files[d].writes <= 1
           /\ Cardinality({d \in Dates : files[d].writes = 1}) = 1

\* C11 as stated: run_once maps the outcome of generate() to the run's terminal
\* status with one finish call and without raising: a returned digest gives success
\* with digest_id and notified, IntegrityError gives skipped/unique_conflict, any
\* other exception gives error with the exception text cut to 500 characters.
C11_OutcomeMapped ==
    [][\A p \in Schedulers :
          (pr[p].pc \in {"g_returned", "g_raised"} /\ pr'[p].pc = "idle") =>
              /\ pr'[p].faults = pr[p].faults
              /\ pr[p].run_id \in DOMAIN jobRuns'
              /\ LET row == jobRuns'[pr[p].run_id] IN
                 IF pr[p].pc = "g_returned"
                 THEN /\ row.status = "success"
                      /\ row.details.digest_id = Some(pr[p].digest[1].id)
                      /\ row.details.notified = Some(pr[p].digest[1].notified_at # None)
                      /\ row.error_message = None
                 ELSE IF pr[p].exc = "IntegrityError"
                 THEN /\ row.status = "skipped"
                      /\ row.details.reason = "unique_conflict"
                      /\ row.error_message = None
                 ELSE /\ row.status = "error"
                      /\ row.error_message # None
                      /\ row.error_message[1][1] = pr[p].exc
                      /\ row.error_message[1][2] <= MsgLimit
      ]_vars

\* C12 as stated: a unique-constraint violation on an article url, raised because
\* another worker stored the url between this worker's de-duplication check and its
\* flush, counts as a duplicate: the fetch of the source succeeds, its other surviving
\* articles are stored, its last_fetched_at is set and no error is recorded.
C12_UrlRaceIsDuplicate ==
    [][\A w \in Workers :
          (wk[w].pc = "commit" /\ wk'[w].pc # "commit") =>
              /\ wk'[w].pc # "except"
              /\ lfa'[wk[w].held] = Some(now)
              /\ wk'[w].stats.sources_fetched = wk[w].stats.sources_fetched + 1
              /\ wk'[w].stats.errors = wk[w].stats.errors
              /\ \A i \in DOMAIN wk[w].save.added :
                    wk[w].save.added[i].url \in DOMAIN articles'
      ]_vars

\* C13 as stated: a force-fetch holds the source for its whole fetch, so a force-fetch
\* and a worker cycle, or two force-fetches, never process the same source at the
\* same time.
C13_ForceFetchExclusive ==
    \A a \in DOMAIN wk : \A b \in DOMAIN wk \ {a} :
        wk[a].held # NONE => wk[b].held # wk[a].held

\* C14 as stated: after any sequence of start and finish calls, with any status passed
\* to finish, a run's finished_at is set exactly when its status is not "running", and
\* started_at <= finished_at when both are set.
C14_FinishedIffNotRunning ==
    \A i \in DOMAIN jobRuns :
        /\ (jobRuns[i].finished_at # None) <=> (jobRuns[i].status # "running")
        /\ jobRuns[i].finished_at # None =>
              jobRuns[i].started_at <= jobRuns[i].finished_at[1]

\* C15 as stated: once finish has set finished_at on a run, a further finish on the
\* same run id leaves its status, finished_at, details and error_message unchanged.
C15_FinishedRunFrozen ==
    [][\A i \in DOMAIN jobRuns :
          jobRuns[i].finished_at # None =>
              /\ jobRuns'[i].status = jobRuns[i].status
              /\ jobRuns'[i].finished_at = jobRuns[i].finished_at
              /\ jobRuns'[i].details = jobRuns[i].details
              /\ jobRuns'[i].error_message = jobRuns[i].error_message
      ]_vars

(***************************************************************************)
(* Properties of the settings service (SpecSettings).                      *)
(***************************************************************************)
\* C16: for a recognized key and a value that set accepts, get(k) straight after
\* set(k, v) returns v, and get(k) straight after reset(k) returns the default of k,
\* whatever calls came before.
C16_SettingsRoundTrip ==
    LET c == pr[Client] IN
    (c.op = "get" /\ c.outcome = "ok") =>
        /\ c.after.op = "set" => c.returned = c.after.arg
        /\ c.after.op = "reset" => c.returned = DEFAULTS[c.key]

\* C16 witness: with rows of other keys stored, a get that follows a set returned the
\* value set, which is not the default.
C16_GetAfterSet ==
    LET c == pr[Client] IN
    /\ c.op = "get" /\ c.outcome = "ok"
    /\ c.after.op = "set"
    /\ c.returned = c.after.arg
    /\ c.returned # DEFAULTS[c.key]
    /\ Cardinality(DOMAIN settings) >= 3

\* a time of day written HH:MM, 00:00 to 23:59
WellFormedTime(value) ==
    /\ value.t = "str"
    /\ Len(value.s) = 5
    /\ value.s[3] = ":"
    /\ \A i \in {1, 2, 4, 5} : IsDigit(value.s[i])
    /\ 10 * DigitValue[value.s[1]] + DigitValue[value.s[2]] <= 23
    /\ 10 * DigitValue[value.s[4]] + DigitValue[value.s[5]] <= 59

\* a value of the key's type and within its options
GoodValue(key, value) ==
    CASE TYPES[key] = "number" -> value.t = "int" /\ value.n >= 1
      [] TYPES[key] = "time" -> WellFormedTime(value)
      [] TYPES[key] = "boolean" -> value.t = "bool"
      [] TYPES[key] = "multiselect" ->
             value.t = "list" /\ \A i \in DOMAIN value.s : value.s[i] \in OPTIONS
      [] key = "summarizer_provider" -> value \in VALID_PROVIDERS
      [] key = "summarizer_tier" -> value \in VALID_TIERS

\* C17 as stated: get, set and reset on an unknown key fail with the unknown-setting
\* error; set with a value of the wrong type or outside the options fails with the
\* bad-value error; a failing call leaves the stored settings unchanged.
C17_BadCallsRejected ==
    [][LET c == pr'[Client] IN
       /\ c.key \notin DOMAIN DEFAULTS => c.outcome = "KeyError"
       /\ (c.op = "set" /\ c.key \in DOMAIN DEFAULTS /\ ~GoodValue(c.key, c.arg)) =>
              c.outcome = "ValueError"
       /\ c.outcome # "ok" => settings' = settings
      ]_vars

(***************************************************************************)
(* Properties of summarize (SpecSummarize).                                *)
(***************************************************************************)
\* the backend failed: an exception, or a summary that is missing, not a string,
\* empty or only white space
BackendFailed(b) ==
    \/ b.kind = "raise"
    \/ ~b.response.is_dict
    \/ ~b.response.has_summary
    \/ b.response.summary.t # "str"
    \/ Strip(b.response.summary.s) = <<>>

\* C18, amended: for every (title, content, url) summarize returns a result whose
\* summary is a string, equal to the title whenever the backend failed, and non-empty
\* whenever the title is non-empty.
C18_SummaryOrTitle ==
    sv.done =>
        /\ sv.result.summary.t = "str"
        /\ sv.result.title = sv.title /\ sv.result.url = sv.url
        /\ BackendFailed(sv.backend) => sv.result.summary = sv.title
        /\ sv.title.s # <<>> => sv.result.summary.s # <<>>

\* C18 as stated: the summary is a non-empty string for every input, and equals the
\* title whenever the backend failed.
C18_SummaryNeverEmpty ==
    sv.done =>
        /\ sv.result.summary.t = "str"
        /\ sv.result.summary.s # <<>>
        /\ BackendFailed(sv.backend) => sv.result.summary = sv.title

\* C18 witness: the backend returned a white-space summary and the result carries the
\* non-empty title.
C18_FellBackToTitle ==
    /\ sv.done
    /\ sv.backend.kind = "return"
    /\ sv.backend.response.has_summary
    /\ sv.backend.response.summary = TextValue(<<" ", " ">>)
    /\ sv.title.s # <<>>
    /\ sv.result.summary = sv.title

(***************************************************************************)
(* Properties of the notifier (SpecNotify).                                *)
(***************************************************************************)
\* C19: send_digest_notification always returns True or False; True exactly when the
\* token and the chat id list are non-empty and the message went to every chat id
\* with no send raising; False when the token or the list is empty or a send failed.
C19_TrueIffSentToAll ==
    /\ sv.pc = "returned" =>
          /\ sv.returned \in {"True", "False"}
          /\ (sv.returned = "True") <=>
                /\ sv.token # "" /\ sv.chat_ids # << >>
                /\ ~sv.failed
                /\ [k \in DOMAIN sv.sent |-> sv.sent[k][1]] = sv.chat_ids
    /\ sv.pc # "returned" => sv.returned = NONE /\ ~sv.failed

\* C19 witness: two chat ids are configured, both sends went through and the call
\* returned True.
C19_SentToBoth ==
    /\ sv.pc = "returned"
    /\ sv.returned = "True"
    /\ Len(sv.chat_ids) = 2
    /\ Len(sv.sent) = 2

(***************************************************************************)
(* Properties of compute_next_run_utc (SpecNextRun).                       *)
(***************************************************************************)
\* HH:MM of the day of dt, read off the digits
TodayAt(dt, hhmm) ==
    DateTime(dt.day, 10 * DigitValue[hhmm[1]] + DigitValue[hhmm[2]],
             10 * DigitValue[hhmm[4]] + DigitValue[hhmm[5]], 0)

\* C20: compute_next_run_utc(now, "HH:MM") is today's HH:MM when now is strictly before
\* it and tomorrow's HH:MM otherwise, equality included; the result is strictly later
\* than now and at most 24 hours later.
C20_NextRunTodayOrTomorrow ==
    sv.done =>
        LET today == TodayAt(sv.now_utc, sv.digest_time_str)
            tomorrow == [today EXCEPT !.day = @ + 1]
        IN  /\ Seconds(sv.now_utc) < Seconds(today) => sv.result = today
            /\ Seconds(sv.now_utc) >= Seconds(today) => sv.result = tomorrow
            /\ Seconds(sv.result) > Seconds(sv.now_utc)
            /\ Seconds(sv.result) - Seconds(sv.now_utc) <= 24 * 60 * 60

\* C20 witness: now is exactly today's HH:MM and the result is tomorrow's, 24 hours on.
C20_ExactlyAtDigestTime ==
    /\ sv.done
    /\ sv.now_utc = TodayAt(sv.now_utc, sv.digest_time_str)
    /\ sv.result.day = sv.now_utc.day + 1
    /\ Seconds(sv.result) - Seconds(sv.now_utc) = 24 * 60 * 60

(***************************************************************************)
(* Further properties of the digest path (SpecDigest).                     *)
(***************************************************************************)
\* C21: the commit of generate() attaches exactly the articles of the snapshot it read
\* at its first step: an article outside the snapshot, such as one a fetch worker
\* inserted after the read, is left as it was with digest_id null, and the next read
\* of unprocessed articles returns it.
C21_SnapshotOnly ==
    [][\A p \in Procs :
          /\ (pr[p].pc = "g_commit" /\ pr'[p].pc = "g_notify") =>
                \A u \in DOMAIN articles :
                    IF u \in DOMAIN pr[p].snapshot
                    THEN articles'[u].digest_id = Some(pr[p].digest[1].id)
                    ELSE articles'[u] = articles[u]
          /\ (pr[p].pc = "g_read" /\ pr'[p].pc = "g_render") =>
                DOMAIN pr'[p].snapshot = Unprocessed
      ]_vars

\* C21 witness: generate() has committed its digest, and the article that arrived after
\* its read is in the table, outside the snapshot, with digest_id null.
C21_LateArticleLeftOut ==
    \E p \in Procs :
        /\ pr[p].pc = "g_notify"
        /\ CandNew.url \in DOMAIN articles
        /\ CandNew.url \notin DOMAIN pr[p].snapshot
        /\ articles[CandNew.url].digest_id = None
        /\ \A u \in DOMAIN pr[p].snapshot : articles[u].digest_id = Some(pr[p].digest[1].id)

(***************************************************************************)
(* Properties of a single worker's cycles (SpecSolo).                      *)
(***************************************************************************)
\* C22 as stated: when the request for a source's listing page fails, the step that
\* ends the source's fetch records an error, does not count the source in
\* sources_fetched and leaves its last_fetched_at unchanged.
C22_ListingFailureRecorded ==
    [][\A w \in CycleWorkers :
          (wk[w].pc = "commit" /\ wk[w].listing_failed /\ wk'[w].pc # "commit") =>
              /\ lfa'[wk[w].held] = lfa[wk[w].held]
              /\ wk'[w].stats.sources_fetched = wk[w].stats.sources_fetched
              /\ \/ wk'[w].pc = "except"
                 \/ Len(wk'[w].stats.errors) = Len(wk[w].stats.errors) + 1
      ]_vars

(***************************************************************************)
(* Properties of the background loops (SpecLoopsFair).                     *)
(***************************************************************************)
\* C23: once the shutdown flag is set a loop starts no new fetch cycle or digest run;
\* a sleeping loop leaves its sleep at its next polling step; a cycle or run in progress
\* is not cut short; and the loop stops.
C23_CooperativeShutdown ==
    /\ [][\A l \in Loops :
             /\ (pr[l].shutdown /\ pr'[l].pc \in {"cycle", "run"}) =>
                    pr'[l].pc = pr[l].pc
             /\ (pr[l].shutdown /\ pr[l].pc = "sleeping" /\ pr'[l] # pr[l]) =>
                    pr'[l].pc # "sleeping"
             /\ pr[l].pc \in {"cycle", "run"} => pr'[l].pc # "stopped"
         ]_vars
    /\ \A l \in Loops : pr[l].shutdown ~> (pr[l].pc = "stopped")

\* C23 witness: both loops have stopped; the worker got its signal in the middle of a
\* cycle, the scheduler while it slept.
C23_BothStopped ==
    /\ \A l \in Loops : pr[l].pc = "stopped"
    /\ pr["fetch_worker"].signalled_at = "cycle"
    /\ pr["digest_scheduler"].signalled_at = "sleeping"

\* C24: an exception raised by a fetch cycle or a digest run does not stop the loop:
\* it is caught, and unless the shutdown flag is set the loop goes on to its next cycle
\* or run.
C24_LoopSurvivesException ==
    /\ [][\A l \in Loops :
             /\ pr[l].pc = "caught" => pr'[l].pc # "stopped"
             /\ (pr[l].pc \in {"cycle", "run"} /\ pr'[l].pc # pr[l].pc) =>
                    pr'[l].pc \in {"caught", "sleeping", "check"}
         ]_vars
    /\ \A l \in Loops :
          (pr[l].pc = "caught") ~> (pr[l].pc \in {"cycle", "run"} \/ pr[l].shutdown)

\* C24 witness: each loop is in a cycle or run that it began after the one before
\* had raised, with no shutdown asked for.
C24_RunningAfterFailure ==
    \A l \in Loops :
        /\ pr[l].pc \in {"cycle", "run"}
        /\ pr[l].last_failed
        /\ ~pr[l].shutdown

(***************************************************************************)
(* Properties of the claim query and the cycle's loop (SpecFetch,          *)
(* SpecSolo).                                                              *)
(***************************************************************************)
\* the enabled sources that are due at time t with the last_fetched_at values of l
DueSources(l, t) == {s \in Sources : SourceRow[s].enabled /\ Due(s, l[s], t)}

\* two cycles of one claim each, begun on the same state of the sources table with at
\* least two sources due, and both returned
TwoWorkersOneClaimEach ==
    /\ \A w \in Workers : /\ wk[w].pc = "return"
                          /\ wk[w].max_sources = 1
                          /\ ~wk[w].alone
                          /\ wk[w].lfa0 = InitialLfa
    /\ Cardinality(DueSources(InitialLfa, 0)) >= 2

\* a claim does not wait, returns no source another worker holds, and returns a source
\* when one is enabled, due, unattempted and unlocked
ClaimSkipsLocked ==
    /\ [](\A w \in Workers : wk[w].pc = "claim" => ENABLED Claim(w))
    /\ [][\A w \in Workers :
             (wk[w].pc = "claim" /\ wk'[w].pc # "claim") =>
                 /\ wk'[w].pc = "fetch" =>
                       /\ \A v \in Workers \ {w} : wk[v].held # wk'[w].held
                       /\ wk'[w].held \in DueSources(lfa, now) \ wk[w].attempted
                 /\ (\E s \in DueSources(lfa, now) \ wk[w].attempted :
                        \A v \in Workers : wk[v].held # s) => wk'[w].pc = "fetch"
         ]_vars

Older(l1, l2) ==
    \/ l1 = None /\ l2 # None
    \/ l1 # None /\ l2 # None /\ l1[1] < l2[1]

\* the step by which worker w claims a source
Claims(w) == wk[w].pc = "claim" /\ wk'[w].pc = "fetch"

\* C26 amended: in a single-worker cycle each claim returns a source that no enabled,
\* due, unattempted source precedes in the order of last_fetched_at, nulls first, at the
\* moment of that claim; never-fetched sources are claimed before any once-fetched one;
\* and a source is claimed only when the one before has been committed or rolled back.
C26_EachClaimOldestDue ==
    [][\A w \in CycleWorkers :
          Claims(w) =>
              /\ \A t \in DueSources(lfa, now) \ wk[w].attempted :
                    ~Older(lfa[t], lfa[wk'[w].held])
              /\ lfa[wk'[w].held] = None =>
                    \A t \in wk[w].attempted : wk[w].lfa0[t] = None
              /\ wk[w].held = NONE
      ]_vars

\* C26 as stated: the sources of one single-worker cycle are claimed in order of their
\* last_fetched_at, oldest first, nulls before any once-fetched source.
C26_CycleClaimsOldestFirst ==
    [][\A w \in CycleWorkers :
          Claims(w) =>
              \A t \in wk[w].attempted :
                  ~Older(lfa[wk'[w].held], wk[w].lfa0[t])
      ]_vars

\* C26 witness: a cycle that claimed a never-fetched source first is fetching a
\* once-fetched one.
C26_SecondClaimOfCycle ==
    \E w \in CycleWorkers :
        /\ wk[w].pc = "fetch"
        /\ lfa[wk[w].held] # None
        /\ \E t \in wk[w].attempted : wk[w].lfa0[t] = None

\* C27: a cycle claims at most max_sources sources, all different, a source whose fetch
\* failed and which is still due included; a claim that finds no source ends the cycle.
C27_BoundedDistinctClaims ==
    /\ [](\A w \in Workers :
            wk[w].pc # "idle" =>
                /\ wk[w].stats.sources_checked <= wk[w].max_sources
                /\ wk[w].stats.sources_checked = Cardinality(wk[w].attempted))
    /\ [][\A w \in Workers :
             /\ Claims(w) => wk'[w].held \notin wk[w].attempted
             /\ (wk[w].pc = "claim" /\ wk'[w].pc # "claim" /\ ~Claims(w)) =>
                    /\ wk'[w].pc = "return"
                    /\ wk'[w].stats = wk[w].stats
             /\ wk[w].pc = "return" => wk'[w].pc \in {"return", "idle"}
         ]_vars

\* C27 witness: a cycle allowed more claims has returned at a claim that found nothing,
\* after a fetch that failed on a source that is still due.
C27_StoppedWithFailedSourceDue ==
    \E w \in Workers :
        /\ wk[w].pc = "return"
        /\ wk[w].stats.sources_checked < wk[w].max_sources
        /\ wk[w].stats.sources_checked >= 2
        /\ wk[w].stats.errors # <<>>
        /\ \E s \in wk[w].attempted : s \in DueSources(lfa, now) /\ ~RowLocked(s)

\* the step in which worker w runs the gates on the candidates of its source
RunsGates(w) == wk[w].pc = "fetch" /\ wk'[w].pc = "commit"

\* C28: the recency gate compares published_at with the source's last_fetched_at as it
\* was when the source was claimed, or with now - 24h when that is null; a candidate
\* that reaches the gate goes on when it has no published_at or one not before the
\* cutoff, and is counted as old otherwise.
C28_RecencyGate ==
    [][\A w \in CycleWorkers :
          RunsGates(w) =>
              LET s == wk[w].held
                  claimed == wk[w].lfa0[s]
                  cutoff == IF claimed = None THEN now - TicksPerDay ELSE claimed[1]
                  cands == wk'[w].cands
                  checked == wk'[w].save.checked
                  atGate == {i \in 1..Len(cands) : Len(checked[i]) >= 2}
                  old == {i \in atGate : /\ cands[i].published_at # None
                                         /\ cands[i].published_at[1] < cutoff}
              IN  /\ \A i \in atGate : checked[i][2] = "recency"
                  /\ \A i \in old : checked[i] = <<"dedup", "recency">>
                  /\ \A i \in atGate \ old : Len(checked[i]) = 3
                  /\ wk'[w].save.old = Cardinality(old)
                  /\ lfa'[s] = claimed
      ]_vars

\* C28 witness: a candidate published exactly at the cutoff, the time of the source's
\* last fetch, has passed the recency gate and gone on to the keyword gate.
C28_AdmittedAtCutoff ==
    \E w \in CycleWorkers :
        /\ wk[w].pc = "commit"
        /\ lfa[wk[w].held] # None
        /\ \E i \in 1..Len(wk[w].cands) :
              /\ wk[w].cands[i].published_at = lfa[wk[w].held]
              /\ Len(wk[w].save.checked[i]) = 3

(***************************************************************************)
(* Properties of generate()'s early failures and section filter            *)
(* (SpecDigest).                                                           *)
(***************************************************************************)
\* the step in which generate(), called by p, raises ValueError
RaisesValueError(p) ==
    /\ pr[p].pc # "g_raised"
    /\ pr'[p].pc = "g_raised"
    /\ pr'[p].exc = "ValueError"

\* the sections of the digest_sections setting
EnabledSections == {settings.digest_sections[i] : i \in DOMAIN settings.digest_sections}

\* C29: when generate() raises for want of unprocessed articles, or of any in an enabled
\* section, it has done nothing yet: it raises from its read or its filter, holding no
\* digest row and having written no file, the step changes no digest, file or article,
\* and the call goes no further, so it sends no notification.
C29_ValueErrorBeforeSideEffects ==
    [][\A p \in Procs :
          /\ RaisesValueError(p) =>
                /\ pr[p].pc \in {"g_read", "g_render"}
                /\ pr[p].digest = None /\ pr[p].today = None
                /\ digests' = digests
                /\ files' = files
                /\ articles' = articles
          /\ pr[p].pc = "g_raised" => pr'[p].pc \in {"g_raised", "idle"}
      ]_vars

\* C29 witness: generate() has raised ValueError with unprocessed articles in the table,
\* none of them in an enabled section.
C29_NoneInEnabledSection ==
    \E p \in Procs :
        /\ pr[p].pc = "g_raised"
        /\ pr[p].exc = "ValueError"
        /\ pr[p].snapshot # << >>
        /\ Unprocessed # {}
        /\ \A u \in Unprocessed : articles[u].digest_section \notin EnabledSections

\* C30: generate() attaches only articles of the enabled sections: its commit leaves
\* every article of another section as it was, and such an article always has a null
\* digest_id and its stored summary, and is among the unprocessed.
C30_OnlyEnabledSectionsAttached ==
    /\ [][\A p \in Procs :
             (pr[p].pc = "g_commit" /\ pr'[p].pc = "g_notify") =>
                 \A u \in DOMAIN articles :
                     /\ articles'[u] # articles[u] =>
                           articles[u].digest_section \in EnabledSections
                     /\ articles[u].digest_section \notin EnabledSections =>
                           articles'[u] = articles[u]
         ]_vars
    /\ [](\A u \in DOMAIN articles :
            articles[u].digest_section \notin EnabledSections =>
                /\ articles[u].digest_id = None
                /\ articles[u].summary = None
                /\ u \in Unprocessed)

\* C30 witness: a digest has been committed with the articles of the one enabled
\* section, and an article of another section is still unprocessed.
C30_OtherSectionLeft ==
    \E p \in Procs :
        /\ pr[p].pc = "g_notify"
        /\ \E u \in DOMAIN articles :
              articles[u].digest_id = Some(pr[p].digest[1].id)
        /\ \E u \in Unprocessed : articles[u].digest_section \notin EnabledSections

C32_OneBrowserProcess ==
    /\ Cardinality(sv.running) <= 1
    /\ \A b \in sv.running : sv.browser = Some(b)
    /\ (\A c \in Callers : pr[c].pc = "idle") /\ sv.browser = None => sv.running = {}

(***************************************************************************)
(* Properties of Fetcher.fetch (SpecRetryFair).                            *)
(***************************************************************************)
\* C33: fetch makes at most max_retries requests; after the k-th failed one, unless it
\* was the last allowed, it sleeps retry_delay * k; it returns the first response, of
\* any status; it raises when the last allowed request has failed; and it ends.
C33_RetriesWithLinearBackoff ==
    /\ [](/\ sv.requests <= sv.max_retries
          /\ \A k \in 1..Len(sv.slept) : sv.slept[k] = sv.retry_delay * k
          /\ sv.pc = "get" => Len(sv.slept) = sv.requests
          /\ sv.pc = "sleep" => Len(sv.slept) = sv.requests - 1
          /\ sv.pc = "returned" => /\ sv.status # None
                                   /\ Len(sv.slept) = sv.requests - 1
          /\ sv.pc = "raised" => /\ sv.status = None
                                 /\ sv.requests = sv.max_retries
                                 /\ Len(sv.slept) = IF sv.max_retries = 0 THEN 0
                                                    ELSE sv.max_retries - 1)
    /\ [][sv.pc = "get" /\ sv'.status # None => sv'.pc = "returned"]_vars
    /\ <>(sv.pc \in {"returned", "raised"})

\* C33 witness: every one of three allowed requests failed; fetch slept after the first
\* and the second and then raised.
C33_GaveUpAfterThree ==
    /\ sv.pc = "raised"
    /\ sv.max_retries = 3
    /\ sv.requests = 3
    /\ sv.slept = <<sv.retry_delay, 2 * sv.retry_delay>>

(***************************************************************************)
(* Properties of the cycle's statistics and of last_fetched_at (SpecFetch, *)
(* SpecForce).                                                             *)
(***************************************************************************)
\* C34: when fetch_due_sources returns, every source it checked was either fetched or
\* recorded in errors, it checked at most max_sources, and the articles found are at
\* least those stored, filtered and old together; for each source the candidates found
\* are the stored, filtered, old and duplicate ones.
C34_StatsAddUp ==
    \A w \in Workers :
        /\ wk[w].pc = "return" =>
              /\ wk[w].stats.sources_checked =
                    wk[w].stats.sources_fetched + Len(wk[w].stats.errors)
              /\ wk[w].stats.sources_checked <= wk[w].max_sources
              /\ wk[w].stats.articles_found >=
                    wk[w].stats.articles_new + wk[w].stats.articles_filtered
                        + wk[w].stats.articles_old
        /\ wk[w].pc = "commit" =>
              wk[w].found = wk[w].save.saved + wk[w].save.filtered + wk[w].save.old
                                + wk[w].save.duplicate

\* C34 witness: a cycle has returned with a fetched source, a failed one, and a
\* duplicate among the articles it found.
C34_ReturnedWithDuplicate ==
    \E w \in Workers :
        /\ wk[w].pc = "return"
        /\ wk[w].stats.sources_fetched >= 1
        /\ wk[w].stats.errors # <<>>
        /\ wk[w].stats.articles_found >
              wk[w].stats.articles_new + wk[w].stats.articles_filtered
                  + wk[w].stats.articles_old

\* C35: no write lowers a source's last_fetched_at, whether a worker's cycle or a
\* force-fetch makes it.
C35_LastFetchedNeverDecreases ==
    [][\A s \in Sources :
          lfa[s] # None => IF lfa'[s] = None THEN FALSE
                           ELSE lfa'[s][1] >= lfa[s][1]
      ]_vars

(***************************************************************************)
(* Progress of the fetch cycles (SpecSoloFair).                            *)
(***************************************************************************)
\* the enabled sources whose fetch does not raise
Fetchable == {s \in Sources : SourceRow[s].enabled /\ SourceRow[s].source_type = "website"}

\* C36: under repeated cycles every fetchable source that is due is eventually fetched,
\* which ends its being due, whatever the other sources do and whatever max_sources is.
C36_DueSourceEventuallyFetched ==
    \A s \in Fetchable : Due(s, lfa[s], now) ~> ~Due(s, lfa[s], now)

(***************************************************************************)
(* Properties of the scheduler's runs (SpecDigest).                        *)
(***************************************************************************)
\* C37: the digest that generate() inserts in a scheduler run carries the date for
\* which run_once looked for an existing digest.
C37_CheckedDateIsStoredDate ==
    \A p \in Schedulers :
        pr[p].digest # None => pr[p].digest[1].date = pr[p].digest_date

\* the articles attached to a digest row
AttachedTo(row) == {u \in DOMAIN articles : articles[u].digest_id = Some(row.id)}

\* C38: the file at a committed digest's html_path lists exactly the articles attached
\* to that digest, also after a later generate() for the same date has failed on the
\* unique constraint.
C38_FileListsAttachedArticles ==
    \A row \in digests : files[row.date].articles = AttachedTo(row)

\* the step in which scheduler p records its run as failed
RecordsError(p) ==
    /\ pr[p].pc \in {"g_returned", "g_raised"}
    /\ jobRuns' # jobRuns
    /\ jobRuns'[pr[p].run_id].status = "error"

\* C39: a scheduler run recorded with status error committed no digest row and attached
\* no article: a run whose generate() committed its digest is recorded as success.
C39_ErrorRunCommittedNothing ==
    [][\A p \in Schedulers :
          RecordsError(p) =>
              \/ pr[p].digest = None
              \/ /\ \A row \in digests : row.id # pr[p].digest[1].id
                 /\ \A u \in DOMAIN articles :
                       articles[u].digest_id # Some(pr[p].digest[1].id)
      ]_vars

\* C40: a fetch cycle holds no source row lock between iterations or once
\* fetch_due_sources is over, and takes a lock only when it holds none: the lock of a
\* claimed source is released, by commit or rollback, before the next claim.
C40_OneLockPerCycle ==
    /\ [](\A w \in Workers :
            wk[w].pc \in {"idle", "claim", "return"} => wk[w].held = NONE)
    /\ [][\A w \in Workers :
             /\ (wk'[w].held # wk[w].held /\ wk'[w].held # NONE) =>
                   /\ wk[w].held = NONE
                   /\ wk[w].pc = "claim"
             /\ (wk[w].pc \in {"commit", "except"} /\ wk'[w].pc \notin {"commit", "except"}) =>
                   wk'[w].held = NONE
         ]_vars

\* C40 witness: a cycle holds its second source, the first having ended in a rollback.
C40_SecondLockAfterRollback ==
    \E w \in Workers :
        /\ wk[w].held # NONE
        /\ Cardinality(wk[w].attempted) = 2
        /\ Len(wk[w].stats.errors) = 1

====
